---- MODULE Spec2Model ----
(***************************************************************************)
(* Customer state synchronization of convex-autumn-svelte.                 *)
(*                                                                         *)
(* Two clients wrap the remote Autumn billing actions:                     *)
(*   - createAutumnClient (vanilla Svelte): owns customerState             *)
(*     {data, isLoading, error} and refreshes it with fetchCustomer();     *)
(*   - createAutumnClientSvelteKit: mirrors the server state in            *)
(*     _state.customer and refreshes by invalidate('autumn:customer').     *)
(*                                                                         *)
(* Around them: the server-side helpers getCustomer and getEntity, the      *)
(* useAutumnOperation helper, and the demo application (the send action of  *)
(* its Convex backend and the submit handler of its Chat component).        *)
(*                                                                         *)
(* JavaScript values are records with a tag field, so that undefined,      *)
(* null, customers, payloads and errors stay distinguishable.  An async    *)
(* function is a process: each await is a point where other tasks run.     *)
(***************************************************************************)
EXTENDS Integers, Sequences, FiniteSets, TLC

(* ----------------------------- bounds ---------------------------------- *)

\* Server-side helper calls (getCustomer, getEntity) made during one run.
MaxHandlerCalls == 2
\* execute() calls on one useAutumnOperation instance during one run.
MaxExecutions == 2

\* Wrapper calls made during one run.
MaxCalls == 1
\* Customer fetches (local client) or invalidations (SvelteKit client)
\* started during one run, the construction-time fetch included.
MaxRefreshes == 2

(* ----------------------------- values ---------------------------------- *)

UndefinedV == [tag |-> "undefined"]
NullV == [tag |-> "null"]

\* A Customer snapshot as returned by the createCustomer action.
Customer(name, balance) == [tag |-> "customer", name |-> name, balance |-> balance]

Snapshots == {Customer("Ada", 10), Customer("Bob", 9)}

\* An Error instance thrown by the action invoker.
ErrorV(message) == [tag |-> "Error", message |-> message]

\* A thrown value that is not an Error instance.
StringV(value) == [tag |-> "string", value |-> value]

\* The error arm of an AutumnActionResponse.
ErrorArm(message, code) == [message |-> message, code |-> code]

ErrorArms == {ErrorArm("Feature not found", "feature_not_found")}

\* An AutumnActionResponse; statusCode is optional.
EnvelopeWith(data, error, statusCode) ==
    [data |-> data, error |-> error, statusCode |-> statusCode]

\* An AutumnActionResponse without a statusCode.
Envelope(data, error) == EnvelopeWith(data, error, <<>>)

\* What client.action(...) does: return an envelope or throw.
Returns(envelope) == [threw |-> FALSE, v |-> envelope]
Throws(value) == [threw |-> TRUE, v |-> value]

ThrownValues == {ErrorV("Connection lost"), StringV("offline")}

\* Envelopes without a payload: business errors, and neither arm populated.
FailureEnvelopes ==
    {Envelope(NullV, e) : e \in ErrorArms} \cup {Envelope(d, NullV) : d \in {NullV, UndefinedV}}

(* ------------------------ response unwrapping --------------------------- *)

\* new AutumnError(error, statusCode)
AutumnError(error, statusCode) ==
    [tag |-> "AutumnError", message |-> error.message, code |-> error.code,
     statusCode |-> statusCode]

Returned(value) == [ok |-> TRUE, value |-> value]
Thrown(value) == [ok |-> FALSE, value |-> value]

\* An unwrap that leaves the status code out of the errors it throws.
unwrapAutumnResponseNoStatus(response) ==
    IF response.error \notin {NullV, UndefinedV}
    THEN Thrown(AutumnError(response.error, <<>>))
    ELSE IF response.data = NullV \/ response.data = UndefinedV
         THEN Thrown(AutumnError(ErrorArm("No data in response", "NO_DATA"), <<>>))
         ELSE Returned(response.data)

\* if (response.error) throw new AutumnError(response.error, response.statusCode)
\* (an error arm is an object, hence truthy; null and undefined are falsy);
\* if (data === null || data === undefined) throw NO_DATA; return response.data
unwrapAutumnResponse(response) ==
    IF response.error \notin {NullV, UndefinedV}
    THEN Thrown(AutumnError(response.error, response.statusCode))
    ELSE IF response.data = NullV \/ response.data = UndefinedV
         THEN Thrown(AutumnError(ErrorArm("No data in response", "NO_DATA"),
                                 response.statusCode))
         ELSE Returned(response.data)

\* err instanceof Error ? err : new Error(String(err))
ToError(err) ==
    IF err.tag \in {"Error", "AutumnError"} THEN err ELSE ErrorV(err.value)

(* --------------------------- operations -------------------------------- *)

\* Wrappers that take RefetchOptions and refresh after a successful unwrap.
MutatingOps ==
    {"check", "checkout", "track", "attach", "cancel", "createEntity",
     "setupPayment", "createReferralCode", "redeemReferralCode"}

\* Wrappers that only invoke, unwrap and return.
ReadOnlyOps == {"openBillingPortal", "getEntity", "listProducts", "usage", "query"}

Ops == MutatingOps \cup ReadOnlyOps

\* Operations whose payload may carry a URL.
UrlOps == {"checkout", "setupPayment", "openBillingPortal"}

\* An optional value is a sequence of length 0 or 1.
None == <<>>
Some(x) == <<x>>

\* A JavaScript array.
ListV(items) == [tag |-> "array", items |-> items]

Payload(url) == [tag |-> "payload", url |-> url]
ListPayload(list) == [tag |-> "payload", list |-> list]

\* The payloads the remote action of op may return.
Payloads(op) ==
    IF op = "listProducts" THEN {ListPayload(ListV(<<"free", "pro">>))}
    ELSE IF op \in UrlOps THEN {Payload(None), Payload(Some("https://billing.test/session"))}
    ELSE {Payload(None)}

\* Everything the client.action(...) call of wrapper w may do.
ActionResponses(w) ==
    {Returns(Envelope(p, NullV)) : p \in w.payloads}
        \cup {Returns(e) : e \in FailureEnvelopes}
        \cup {Throws(v) : v \in ThrownValues}

\* Everything client.action(convexApi.createCustomer, ...) may do.
FetchResponses ==
    {Returns(Envelope(s, NullV)) : s \in Snapshots}
        \cup {Returns(e) : e \in FailureEnvelopes}
        \cup {Throws(v) : v \in ThrownValues}

\* The code of the wrapper of op, up to the action it references: whether it
\* takes RefetchOptions and has the refresh block, what it returns (attach and
\* cancel are Promise<void>, listProducts returns data.list, the others return
\* the unwrapped payload), and the payloads its action may return.  Wrappers
\* that differ in the action reference only have the same code.  The effect
\* field names what the wrapper does with a URL in its payload: checkout
\* hands it to params.dialog, setupPayment assigns window.location.href,
\* openBillingPortal calls window.open(url, "_blank").
WrapperOf(op) ==
    [mutating |-> op \in MutatingOps,
     returns |-> IF op \in {"attach", "cancel"} THEN "void"
                 ELSE IF op = "listProducts" THEN "list"
                 ELSE "payload",
     payloads |-> Payloads(op),
     effect |-> IF op = "checkout" THEN "dialog"
                ELSE IF op = "setupPayment" THEN "location.href"
                ELSE IF op = "openBillingPortal" THEN "window.open"
                ELSE "none"]

\* The RefetchOptions argument of a mutating wrapper, {} or {refetch: false};
\* the read-only wrappers have no such parameter.
OptionsOf(op) == IF op \in MutatingOps THEN {None, Some(FALSE)} ELSE {None}

\* The params argument, as far as the wrappers look into it: whether
\* CheckoutParams.dialog is supplied.
PlainParams == [dialog |-> FALSE]

ParamsOf(op) == IF op = "checkout" THEN {PlainParams, [dialog |-> TRUE]} ELSE {PlainParams}

\* The refetch option is dropped.
RefetchOfIgnored(options) == TRUE

\* const { refetch = true } = options
RefetchOf(options) == IF options = None THEN TRUE ELSE options[1]

\* A refresh placed in a finally block: it runs after a failed unwrap too.
ShouldRefreshFinally(r, w, options) == w.mutating /\ RefetchOf(options)

\* A refresh block pasted into the read-only wrappers too.
ShouldRefreshAnyOp(r, w, options) == r.ok /\ RefetchOf(options)

\* Whether wrapper w reaches its refresh: unwrapAutumnResponse did not throw
\* (r.ok), the wrapper has the block if (refetch) { await ... } (the mutating
\* wrappers only), and refetch is true.
ShouldRefresh(r, w, options) == r.ok /\ w.mutating /\ RefetchOf(options)

\* A refresh that is started but not awaited.
AwaitedNot(promise) == TRUE

\* await p: the wrapper continues once p has settled.
Awaited(promise) == promise # "pending"

\* The value wrapper w returns for an unwrapped payload.
WrapperReturn(w, payload) ==
    IF w.returns = "void" THEN UndefinedV
    ELSE IF w.returns = "list" THEN payload.list
    ELSE payload

\* A side effect on the page: a call of params.dialog(url), an assignment
\* window.location.href = url, or a call window.open(url, "_blank").
Effect(kind, url) == [kind |-> kind, url |-> url]

\* A checkout that hands the URL to params.dialog on the server too.
SideEffectsDialogAnywhere(w, params, data, browser) ==
    IF w.effect = "none" THEN <<>>
    ELSE IF w.effect = "dialog"
         THEN IF params.dialog /\ data.url # None THEN <<Effect("dialog", data.url[1])>>
              ELSE <<>>
         ELSE IF browser /\ data.url # None THEN <<Effect(w.effect, data.url[1])>> ELSE <<>>

\* A setupPayment and an openBillingPortal that navigate on the server too.
SideEffectsNavigateAnywhere(w, params, data, browser) ==
    IF w.effect = "none" THEN <<>>
    ELSE IF w.effect = "dialog"
         THEN IF params.dialog /\ data.url # None
              THEN IF browser THEN <<Effect("dialog", data.url[1])>> ELSE <<>>
              ELSE <<>>
         ELSE IF data.url # None THEN <<Effect(w.effect, data.url[1])>> ELSE <<>>

\* What wrapper w does between its unwrap and its refresh block:
\*   checkout:          if (params.dialog && data.url) { if (isBrowser) params.dialog(data.url) }
\*   setupPayment:      if (isBrowser && data.url) window.location.href = data.url
\*   openBillingPortal: if (isBrowser && data.url) window.open(data.url, "_blank")
SideEffects(w, params, data, browser) ==
    IF w.effect = "none" THEN <<>>
    ELSE IF w.effect = "dialog"
         THEN IF params.dialog /\ data.url # None
              THEN IF browser THEN <<Effect("dialog", data.url[1])>> ELSE <<>>
              ELSE <<>>
         ELSE IF browser /\ data.url # None THEN <<Effect(w.effect, data.url[1])>> ELSE <<>>

\* A wrapper whose URL handling was moved into its if (refetch) { ... } block.
EffectsOfInRefetchBlock(c, r, browser) ==
    IF r.ok /\ RefetchOf(c.options) THEN SideEffects(c.w, c.params, r.value, browser) ELSE <<>>

\* The side effects of wrapper call c whose unwrap gave r: the URL handling
\* stands after const data = unwrapAutumnResponse(result), which throws past
\* it on a failure, and before if (refetch) { await ... }.
EffectsOf(c, r, browser) ==
    IF r.ok THEN SideEffects(c.w, c.params, r.value, browser) ELSE <<>>

\* await client.action(...) followed by unwrapAutumnResponse(result).
Unwrapped(resp) == IF resp.threw THEN Thrown(resp.v) ELSE unwrapAutumnResponse(resp.v)

(* --------------------------- local check -------------------------------- *)

FeatureIds == {"messages", "seats"}

\* An entry of customer.features; balance is optional.
Feature(balance) == [balance |-> balance]

\* The balances a feature entry may carry (None: undefined, unlimited).
Balances == {None, Some(0), Some(10)}

\* The features maps of the customers checked: no entry at all, or an entry
\* for "messages" only.
FeatureMaps ==
    {[f \in ids |-> Feature(b)] : ids \in {{}, {"messages"}}, b \in Balances}

\* A customer that carries a features map.
CustomerWith(features) == [tag |-> "customer", name |-> "Ada", features |-> features]

\* CheckParams, as far as allowed() looks into it; requiredBalance is optional.
CheckParams ==
    [featureId : FeatureIds, requiredBalance : {None, Some(0), Some(1), Some(10), Some(11)}]

Allow == [allowed |-> TRUE]
Deny(reason) == [allowed |-> FALSE, reason |-> reason]

\* customer.features?.[featureId]: None when the customer has no features
\* map or the map has no such entry.
FeatureOf(customer, featureId) ==
    IF "features" \notin DOMAIN customer THEN None
    ELSE IF featureId \notin DOMAIN customer.features THEN None
    ELSE Some(customer.features[featureId])

\* const { featureId, requiredBalance = 1 } = params
RequiredBalanceOf(params) ==
    IF params.requiredBalance = None THEN 1 ELSE params.requiredBalance[1]

\* A check that reads customer.features[featureId] without the ?. guard: it
\* throws a TypeError on a customer that has no features map.
allowedUnguarded(customer, params) ==
    IF customer \in {UndefinedV, NullV} THEN Returned(Deny("No customer data"))
    ELSE IF "features" \notin DOMAIN customer
         THEN Thrown([tag |-> "TypeError", message |-> "Cannot read properties of undefined"])
         ELSE LET feature == FeatureOf(customer, params.featureId)
                  requiredBalance == RequiredBalanceOf(params)
              IN  IF feature = None THEN Returned(Deny("Feature not found"))
                  ELSE IF feature[1].balance # None /\ feature[1].balance[1] < requiredBalance
                       THEN Returned(Deny("Insufficient balance: " \o ToString(feature[1].balance[1])
                                              \o " < " \o ToString(requiredBalance)))
                       ELSE Returned(Allow)

\* A check that also denies a balance equal to requiredBalance.
allowedAtMost(customer, params) ==
    IF customer \in {UndefinedV, NullV} THEN Returned(Deny("No customer data"))
    ELSE LET feature == FeatureOf(customer, params.featureId)
             requiredBalance == RequiredBalanceOf(params)
         IN  IF feature = None THEN Returned(Deny("Feature not found"))
             ELSE IF feature[1].balance # None /\ feature[1].balance[1] <= requiredBalance
                  THEN Returned(Deny("Insufficient balance: " \o ToString(feature[1].balance[1])
                                         \o " < " \o ToString(requiredBalance)))
                  ELSE Returned(Allow)

\* allowed(params) of either client, on the customer it reads from its cache:
\*   if (!customer) return deny "No customer data"
\*   if (!feature) return deny "Feature not found"
\*   if (feature.balance !== undefined && feature.balance < requiredBalance)
\*       return deny `Insufficient balance: ${balance} < ${requiredBalance}`
\*   return { allowed: true }
allowed(customer, params) ==
    IF customer \in {UndefinedV, NullV} THEN Returned(Deny("No customer data"))
    ELSE LET feature == FeatureOf(customer, params.featureId)
             requiredBalance == RequiredBalanceOf(params)
         IN  IF feature = None THEN Returned(Deny("Feature not found"))
             ELSE IF feature[1].balance # None /\ feature[1].balance[1] < requiredBalance
                  THEN Returned(Deny("Insufficient balance: " \o ToString(feature[1].balance[1])
                                         \o " < " \o ToString(requiredBalance)))
                  ELSE Returned(Allow)

(* ------------------------------ state ----------------------------------- *)

VARIABLES
    variant,        \* which client the application constructed
    customerState,  \* local client: {data, isLoading, error}
    fetches,        \* local client: the fetchCustomer() calls, in start order
    lastDone,       \* local client: the fetch that completed last, its response, and
                    \* the data it replaced (history)
    _state,         \* SvelteKit client: {customer}
    serverState,    \* SvelteKit client: what getServerState?.() yields
    effectPending,  \* SvelteKit client: the $effect is scheduled to run
    invalidations,  \* SvelteKit client: the invalidate(...) calls, in start order
    calls,          \* wrapper calls in flight
    nCalls,         \* wrapper calls made so far
    settled,        \* the wrapper call that settled last
    isBrowser,      \* typeof window !== "undefined"
    effects,        \* the side effects on the page so far, in order
    allowedResult,  \* the last allowed() call: its params and what it did
    unwrapped,      \* the last envelope unwrapped on its own, and what that did
    handlers,       \* server side: the getCustomer/getEntity calls, in call order
    operationState, \* useAutumnOperation: {isLoading, error, result}
    executions,     \* useAutumnOperation: the execute() calls, in call order
    messages,       \* demo backend: the rows of the messages table, in insert order
    usage,          \* demo backend: the usage events Autumn has recorded
    sends,          \* demo backend: the runs of the send action, in call order
    newMessageText, \* Chat component: the text bound to the input
    submits         \* Chat component: the handleSubmit() calls, in call order

vars ==
    <<variant, customerState, fetches, lastDone, _state, serverState, effectPending,
      invalidations, calls, nCalls, settled, isBrowser, effects, allowedResult,
      unwrapped, handlers, operationState, executions, messages, usage, sends,
      newMessageText, submits>>

localVars == <<customerState, fetches, lastDone>>
kitVars == <<_state, serverState, effectPending, invalidations>>

\* The demo application: its backend and its Chat component.
demoVars == <<messages, usage, sends, newMessageText, submits>>

\* What the wrappers and the refreshes never write.
asideVars ==
    <<isBrowser, allowedResult, unwrapped, handlers, operationState, executions, demoVars>>

\* let isLoading = $state(false); let error = $state(null); let result = $state(null)
InitialOperationState == [isLoading |-> FALSE, error |-> NullV, result |-> NullV]

\* Nothing has been unwrapped on its own, no server-side helper has been
\* called, the useAutumnOperation instance has just been created, and the
\* demo has stored no message and the Chat input is empty
\* (let newMessageText = $state('')).
AsideIdle ==
    /\ unwrapped = UndefinedV
    /\ handlers = <<>>
    /\ operationState = InitialOperationState
    /\ executions = <<>>
    /\ messages = <<>>
    /\ usage = 0
    /\ sends = <<>>
    /\ newMessageText = ""
    /\ submits = <<>>

\* getServerState?.(): undefined without an accessor, else {customer}.
ServerStates == {UndefinedV} \cup {[customer |-> c] : c \in Snapshots \cup {NullV}}

\* serverState?.customer, as a value (undefined and null are both falsy).
ServerCustomer(ss) == IF ss = UndefinedV THEN UndefinedV ELSE ss.customer

\* $state({ customer: getServerState?.()?.customer ?? null })
InitialKitState(ss) ==
    [customer |-> IF ServerCustomer(ss) \in {UndefinedV, NullV} THEN NullV ELSE ServerCustomer(ss)]

\* A cache that starts as "no customer" instead of "not fetched yet".
InitialCustomerStateNull == [data |-> NullV, isLoading |-> TRUE, error |-> NullV]

\* $state({ data: undefined, isLoading: true, error: null })
InitialCustomerState == [data |-> UndefinedV, isLoading |-> TRUE, error |-> NullV]

\* The settled slot before any wrapper call has settled.
NoCall ==
    [id |-> 0, mutating |-> FALSE, status |-> "none", value |-> UndefinedV, rid |-> 0,
     resp |-> Throws(UndefinedV)]

\* A refresh that clears the cached customer while it loads.
fetchCustomerStartReset(cs) == [cs EXCEPT !.isLoading = TRUE, !.error = NullV, !.data = UndefinedV]

\* fetchCustomer() up to its await: isLoading = true; error = null.
fetchCustomerStart(cs) == [cs EXCEPT !.isLoading = TRUE, !.error = NullV]

\* A fetch that keeps a customer it already has (data ??= ...).
fetchCustomerSettleKeep(cs, resp) ==
    LET r == Unwrapped(resp)
    IN  IF r.ok
        THEN [cs EXCEPT !.data = IF cs.data.tag = "customer" THEN cs.data ELSE r.value,
                        !.isLoading = FALSE]
        ELSE [cs EXCEPT !.error = ToError(r.value), !.data = NullV, !.isLoading = FALSE]

\* A fetch that patches the balance into the customer it already has.
fetchCustomerSettleMerge(cs, resp) ==
    LET r == Unwrapped(resp)
    IN  IF r.ok
        THEN [cs EXCEPT !.data = IF cs.data.tag = "customer"
                                  THEN [cs.data EXCEPT !.balance = r.value.balance]
                                  ELSE r.value,
                        !.isLoading = FALSE]
        ELSE [cs EXCEPT !.error = ToError(r.value), !.data = NullV, !.isLoading = FALSE]

\* fetchCustomer() after its await: try { data = unwrap(result) }
\* catch (err) { error = ...; data = null } finally { isLoading = false }
fetchCustomerSettle(cs, resp) ==
    LET r == Unwrapped(resp)
    IN  IF r.ok
        THEN [cs EXCEPT !.data = r.value, !.isLoading = FALSE]
        ELSE [cs EXCEPT !.error = ToError(r.value), !.data = NullV, !.isLoading = FALSE]

\* A catch block that rethrows after storing the error.
fetchCustomerPromiseRethrow(resp) == IF Unwrapped(resp).ok THEN "resolved" ELSE "rejected"

\* The promise fetchCustomer() returns: the catch block swallows every throw.
fetchCustomerPromise(resp) == "resolved"

\* The fetch the constructor starts: fetchCustomer() is called before the
\* client is returned; its by field names the caller (0: the constructor,
\* -1: refetch(), n > 0: wrapper call n).
NewFetch(by) == [by |-> by, promise |-> "pending"]

\* fetches after fetchCustomer() was called by `by`.  The busy field records
\* history only: whether another fetch was in flight when this one started.
StartFetch(fs, by) ==
    LET busy == \E f \in 1..Len(fs) : fs[f].promise = "pending"
    IN  Append(fs, [by |-> NewFetch(by).by, promise |-> NewFetch(by).promise, busy |-> busy])

\* invalidateAll() in place of the keyed invalidation.
NewInvalidationAll(by) == [by |-> by, key |-> "*", promise |-> "pending"]

\* invalidate('autumn:customer')
NewInvalidation(by) == [by |-> by, key |-> "autumn:customer", promise |-> "pending"]

\* The state after the construction of a client.
Constructed ==
    /\ variant \in {"svelte", "sveltekit"}
    /\ customerState =
           IF variant = "svelte" THEN fetchCustomerStart(InitialCustomerState)
           ELSE InitialCustomerState
    /\ fetches = IF variant = "svelte" THEN StartFetch(<<>>, 0) ELSE <<>>
    /\ lastDone = [fid |-> 0, resp |-> Throws(UndefinedV), prev |-> UndefinedV]
    /\ serverState \in IF variant = "sveltekit" THEN ServerStates ELSE {UndefinedV}
    /\ _state = InitialKitState(serverState)
    /\ effectPending = (variant = "sveltekit")
    /\ invalidations = <<>>
    /\ calls = {}
    /\ nCalls = 0
    /\ settled = NoCall
    /\ effects = <<>>
    /\ allowedResult = UndefinedV
    /\ AsideIdle

\* A client constructed by a page in the browser.
Init == Constructed /\ isBrowser = TRUE

(* ----------------------------- actions ---------------------------------- *)

\* The promises a wrapper awaits after its unwrap: fetchCustomer() in the
\* local client, invalidate('autumn:customer') in the SvelteKit client.
Refreshes == IF variant = "svelte" THEN fetches ELSE invalidations

\* A wrapper call suspended at await client.action(...).
InFlight(id, op, params, options) ==
    [id |-> id, w |-> WrapperOf(op), params |-> params, options |-> options, pc |-> "action",
     payload |-> NullV, rid |-> 0, resp |-> Throws(UndefinedV)]

\* The settlement of wrapper call c: mutating tells the shape of its wrapper,
\* rid names the refresh it awaited (0: none), resp what its remote action did.
Settle(c, resp, status, value) ==
    [id |-> c.id, mutating |-> c.w.mutating, status |-> status, value |-> value,
     rid |-> c.rid, resp |-> resp]

\* A wrapper is called: it runs up to await client.action(convexApi[op], params).
Call(op, params, options) ==
    /\ nCalls < MaxCalls
    /\ nCalls' = nCalls + 1
    /\ calls' = calls \cup {InFlight(nCalls + 1, op, params, options)}
    /\ UNCHANGED <<variant, localVars, kitVars, settled, effects, asideVars>>

\* The remote action of wrapper call c completes with resp: the wrapper
\* unwraps it and runs up to its next await or to its end.
ActionReturns(c, resp) ==
    LET r == Unwrapped(resp)
        refresh == ShouldRefresh(r, c.w, c.options)
        rid == Len(Refreshes) + 1
    IN  /\ c.pc = "action"
        /\ refresh => Len(Refreshes) < MaxRefreshes
        /\ calls' =
               IF refresh
               THEN (calls \ {c})
                        \cup {[c EXCEPT !.pc = "refresh", !.payload = r.value, !.rid = rid,
                                        !.resp = resp]}
               ELSE calls \ {c}
        /\ settled' =
               IF refresh THEN settled
               ELSE IF r.ok THEN Settle(c, resp, "resolved", WrapperReturn(c.w, r.value))
               ELSE Settle(c, resp, "rejected", r.value)
        /\ customerState' =
               IF refresh /\ variant = "svelte" THEN fetchCustomerStart(customerState)
               ELSE customerState
        /\ fetches' =
               IF refresh /\ variant = "svelte" THEN StartFetch(fetches, c.id)
               ELSE fetches
        /\ invalidations' =
               IF refresh /\ variant = "sveltekit"
               THEN Append(invalidations, NewInvalidation(c.id))
               ELSE invalidations
        /\ effects' = effects \o EffectsOf(c, r, isBrowser)
        /\ UNCHANGED <<variant, lastDone, _state, serverState, effectPending, nCalls, asideVars>>

\* The promise wrapper call c awaits in if (refetch) { await ... } has
\* settled: the wrapper returns its payload.
Resume(c) ==
    /\ c.pc = "refresh"
    /\ Awaited(Refreshes[c.rid].promise)
    /\ calls' = calls \ {c}
    /\ settled' =
           IF Refreshes[c.rid].promise = "rejected"
           THEN Settle(c, c.resp, "rejected", UndefinedV)
           ELSE Settle(c, c.resp, "resolved", WrapperReturn(c.w, c.payload))
    /\ UNCHANGED <<variant, localVars, kitVars, nCalls, effects, asideVars>>

\* Local client: refetch() is fetchCustomer itself.
RefetchLocal ==
    /\ variant = "svelte"
    /\ Len(fetches) < MaxRefreshes
    /\ customerState' = fetchCustomerStart(customerState)
    /\ fetches' = StartFetch(fetches, -1)
    /\ UNCHANGED <<variant, lastDone, kitVars, calls, nCalls, settled, effects, asideVars>>

\* Local client: the createCustomer action of fetch f completes with resp.
FetchReturns(f, resp) ==
    /\ variant = "svelte"
    /\ fetches[f].promise = "pending"
    /\ customerState' = fetchCustomerSettle(customerState, resp)
    /\ fetches' = [fetches EXCEPT ![f].promise = fetchCustomerPromise(resp)]
    /\ lastDone' = [fid |-> f, resp |-> resp, prev |-> customerState.data]
    /\ UNCHANGED <<variant, kitVars, calls, nCalls, settled, effects, asideVars>>

\* SvelteKit client: refetch() is await invalidate('autumn:customer').
RefetchKit ==
    /\ variant = "sveltekit"
    /\ Len(invalidations) < MaxRefreshes
    /\ invalidations' = Append(invalidations, NewInvalidation(-1))
    /\ UNCHANGED <<variant, localVars, _state, serverState, effectPending, calls, nCalls, settled,
                   effects, asideVars>>

\* SvelteKit: invalidation i reruns the server load, which yields customer c
\* to the accessor (when there is one), and its promise resolves.
InvalidateReruns(i, c) ==
    /\ variant = "sveltekit"
    /\ invalidations[i].promise = "pending"
    /\ invalidations' = [invalidations EXCEPT ![i].promise = "resolved"]
    /\ serverState' = IF serverState = UndefinedV THEN UndefinedV ELSE [customer |-> c]
    /\ effectPending' = TRUE
    /\ UNCHANGED <<variant, localVars, _state, calls, nCalls, settled, effects, asideVars>>

\* An $effect that copies serverState?.customer as it is, undefined included.
SyncedCustomerAsIs(ss) == ServerCustomer(ss)

\* The $effect body: _state.customer = serverState?.customer ? it : null.
SyncedCustomer(ss) ==
    IF ServerCustomer(ss) \in {UndefinedV, NullV} THEN NullV ELSE ServerCustomer(ss)

\* SvelteKit client: the $effect runs.
Resync ==
    /\ variant = "sveltekit"
    /\ effectPending
    /\ _state' = [_state EXCEPT !.customer = SyncedCustomer(serverState)]
    /\ effectPending' = FALSE
    /\ UNCHANGED <<variant, localVars, serverState, invalidations, calls, nCalls, settled,
                   effects, asideVars>>

Next ==
    \/ \E op \in Ops : \E options \in OptionsOf(op) : Call(op, PlainParams, options)
    \/ \E c \in calls : \E resp \in ActionResponses(c.w) : ActionReturns(c, resp)
    \/ \E c \in calls : Resume(c)
    \/ RefetchLocal
    \/ \E f \in 1..Len(fetches) : \E resp \in FetchResponses : FetchReturns(f, resp)
    \/ RefetchKit
    \/ \E i \in 1..Len(invalidations) : \E c \in Snapshots \cup {NullV} : InvalidateReruns(i, c)
    \/ Resync

Spec == Init /\ [][Next]_vars

\* An application that constructs the local client.
InitLocal == Init /\ variant = "svelte"

NextLocal ==
    \/ \E op \in Ops : \E options \in OptionsOf(op) : Call(op, PlainParams, options)
    \/ \E c \in calls : \E resp \in ActionResponses(c.w) : ActionReturns(c, resp)
    \/ \E c \in calls : Resume(c)
    \/ RefetchLocal
    \/ \E f \in 1..Len(fetches) : \E resp \in FetchResponses : FetchReturns(f, resp)

SpecLocal == InitLocal /\ [][NextLocal]_vars

\* An application that constructs the SvelteKit client.
InitKit == Init /\ variant = "sveltekit"

NextKit ==
    \/ \E op \in Ops : \E options \in OptionsOf(op) : Call(op, PlainParams, options)
    \/ \E c \in calls : \E resp \in ActionResponses(c.w) : ActionReturns(c, resp)
    \/ \E c \in calls : Resume(c)
    \/ RefetchKit
    \/ \E i \in 1..Len(invalidations) : \E c \in Snapshots \cup {NullV} : InvalidateReruns(i, c)
    \/ Resync

SpecKit == InitKit /\ [][NextKit]_vars

\* const customer = customerState.data (local), = _state.customer (SvelteKit)
CachedCustomer == IF variant = "svelte" THEN customerState.data ELSE _state.customer

\* allowed(params) is called: it runs to its end without an await.
Allowed(params) ==
    /\ allowedResult' = [params |-> params, did |-> allowed(CachedCustomer, params)]
    /\ UNCHANGED <<variant, localVars, kitVars, calls, nCalls, settled, isBrowser, effects,
                   unwrapped, handlers, operationState, executions, demoVars>>

\* The SvelteKit client with allowed() called between the other operations.
NextMirror ==
    \/ NextKit
    \/ Allowed([featureId |-> "messages", requiredBalance |-> None])

SpecMirror == InitKit /\ [][NextMirror]_vars

\* The customers a cache is checked with: without a features map, and with
\* each of FeatureMaps.
CheckedCustomers == {Customer("Ada", 10)} \cup {CustomerWith(fm) : fm \in FeatureMaps}

\* A client in the browser whose cache is unknown (local client, first fetch
\* in flight), absent, or one of CheckedCustomers: the local client after its
\* first fetch, the SvelteKit client on the server state it is constructed with.
InitAllowed ==
    /\ variant \in {"svelte", "sveltekit"}
    /\ isBrowser = TRUE
    /\ \E c \in CheckedCustomers \cup {NullV, UndefinedV} :
           /\ variant = "sveltekit" => c # UndefinedV
           /\ customerState =
                  IF variant = "sveltekit" \/ c = UndefinedV
                  THEN fetchCustomerStart(InitialCustomerState)
                  ELSE fetchCustomerSettle(fetchCustomerStart(InitialCustomerState),
                                           Returns(Envelope(c, NullV)))
           /\ fetches =
                  IF variant = "sveltekit" THEN <<>>
                  ELSE IF c = UndefinedV THEN StartFetch(<<>>, 0)
                  ELSE [StartFetch(<<>>, 0) EXCEPT ![1].promise =
                            fetchCustomerPromise(Returns(Envelope(c, NullV)))]
           /\ lastDone =
                  IF variant = "sveltekit" \/ c = UndefinedV
                  THEN [fid |-> 0, resp |-> Throws(UndefinedV), prev |-> UndefinedV]
                  ELSE [fid |-> 1, resp |-> Returns(Envelope(c, NullV)), prev |-> UndefinedV]
           /\ serverState = IF variant = "sveltekit" THEN [customer |-> c] ELSE UndefinedV
    /\ _state = InitialKitState(serverState)
    /\ effectPending = (variant = "sveltekit")
    /\ invalidations = <<>>
    /\ calls = {}
    /\ nCalls = 0
    /\ settled = NoCall
    /\ effects = <<>>
    /\ allowedResult = UndefinedV
    /\ AsideIdle

NextAllowed ==
    \/ \E params \in CheckParams : Allowed(params)
    \/ Resync

SpecAllowed == InitAllowed /\ [][NextAllowed]_vars

\* Payloads of any type, the falsy ones included.
AnyPayloads ==
    {Customer("Ada", 10), Payload(None), [tag |-> "number", n |-> 0], StringV(""),
     [tag |-> "boolean", b |-> FALSE]}

\* The envelopes unwrapped on their own: either arm populated, both, or
\* neither, with and without a status code.
AnyEnvelopes ==
    {EnvelopeWith(data, error, statusCode) :
        data \in AnyPayloads \cup {NullV, UndefinedV},
        error \in ErrorArms \cup {ErrorArm("Not signed in", "unauthorized"), NullV, UndefinedV},
        statusCode \in {None, Some(200), Some(402)}}

\* unwrapAutumnResponse(response) is called.
Unwrap(response) ==
    /\ unwrapped' = [response |-> response, did |-> <<unwrapAutumnResponse(response)>>]
    /\ UNCHANGED <<variant, localVars, kitVars, calls, nCalls, settled, isBrowser, effects,
                   allowedResult, handlers, operationState, executions, demoVars>>

\* unwrapAutumnResponse is called again with the envelope of the last call.
UnwrapAgain ==
    /\ unwrapped # UndefinedV
    /\ Len(unwrapped.did) = 1
    /\ unwrapped' =
           [unwrapped EXCEPT !.did = Append(@, unwrapAutumnResponse(unwrapped.response))]
    /\ UNCHANGED <<variant, localVars, kitVars, calls, nCalls, settled, isBrowser, effects,
                   allowedResult, handlers, operationState, executions, demoVars>>

\* A page that unwraps envelopes itself.
NextUnwrap ==
    \/ \E response \in AnyEnvelopes : Unwrap(response)
    \/ UnwrapAgain

SpecUnwrap == InitLocal /\ [][NextUnwrap]_vars

\* A client constructed in the browser or during server-side rendering, and
\* the wrappers whose payload may carry a URL, called with every params.
InitPage == Constructed /\ isBrowser \in BOOLEAN

NextPage ==
    \/ \E op \in UrlOps : \E params \in ParamsOf(op) : \E options \in OptionsOf(op) :
           Call(op, params, options)
    \/ \E c \in calls : \E resp \in ActionResponses(c.w) : ActionReturns(c, resp)
    \/ \E c \in calls : Resume(c)
    \/ \E f \in 1..Len(fetches) : \E resp \in FetchResponses : FetchReturns(f, resp)
    \/ \E i \in 1..Len(invalidations) : \E c \in Snapshots \cup {NullV} : InvalidateReruns(i, c)
    \/ Resync

SpecPage == InitPage /\ [][NextPage]_vars

(* ------------------------- server-side helpers -------------------------- *)

\* Everything the client variables comprise; the helpers touch none of it.
clientVars == <<variant, localVars, kitVars, calls, nCalls, settled, isBrowser, effects>>

Entity(id) == [tag |-> "entity", id |-> id]

\* String.prototype.includes
Includes(s, t) == \E i \in 1..(Len(s) - Len(t) + 1) : SubSeq(s, i, i + Len(t) - 1) = t

\* error instanceof Error ? error.message : String(error)
ErrorMessage(error) == IF error.tag \in {"Error", "AutumnError"} THEN error.message ELSE error.value

\* What createClient(event) may do: return a client or throw.
CreateClientResults ==
    {Returns([tag |-> "ConvexHttpClient"])} \cup {Throws(v) : v \in ThrownValues}

\* What the action of helper `name` may do: return its customer or entity,
\* an envelope without payload, the error of an unauthenticated request, or throw.
HandlerResponses(name) ==
    {Returns(Envelope(IF name = "getCustomer" THEN Customer("Ada", 10) ELSE Entity("entity-123"),
                      NullV))}
        \cup {Returns(e) : e \in FailureEnvelopes}
        \cup {Returns(EnvelopeWith(NullV,
                                    ErrorArm("No customer identifier found", "unauthorized"),
                                    Some(401))),
              Throws(ErrorV("Uncaught Error: No customer identifier found for this request"))}
        \cup {Throws(v) : v \in ThrownValues}

\* A catch block that rethrows the errors it does not expect.
HandlerCatchRethrow(name, error) ==
    IF name = "getCustomer" /\ Includes(ErrorMessage(error), "No customer identifier found")
    THEN [did |-> Returned(NullV), logged |-> <<>>]
    ELSE [did |-> Thrown(error), logged |-> <<error>>]

\* The catch blocks: getCustomer returns null silently when the message
\* includes "No customer identifier found", and logs with console.error and
\* returns null otherwise; getEntity logs and returns null.
HandlerCatch(name, error) ==
    IF name = "getCustomer" /\ Includes(ErrorMessage(error), "No customer identifier found")
    THEN [did |-> Returned(NullV), logged |-> <<>>]
    ELSE [did |-> Returned(NullV), logged |-> <<error>>]

\* getCustomer(event) or getEntity(event, entityId) is called: it runs up to
\* await createClient(event).
HandlerCall(name) ==
    /\ Len(handlers) < MaxHandlerCalls
    /\ handlers' =
           Append(handlers,
                  [name |-> name, pc |-> "createClient", client |-> Throws(UndefinedV),
                   resp |-> Throws(UndefinedV), did |-> None, logged |-> <<>>])
    /\ UNCHANGED <<clientVars, allowedResult, unwrapped, operationState, executions, demoVars>>

\* createClient(event) of helper call h settles: on a throw the catch block
\* runs, otherwise the helper runs up to await client.action(...).
CreateClientReturns(h, result) ==
    /\ handlers[h].pc = "createClient"
    /\ handlers' =
           [handlers EXCEPT ![h] =
               LET call == handlers[h]
                   caught == HandlerCatch(call.name, result.v)
               IN  IF result.threw
                   THEN [call EXCEPT !.pc = "done", !.client = result,
                                     !.did = Some(caught.did), !.logged = caught.logged]
                   ELSE [call EXCEPT !.pc = "action", !.client = result]]
    /\ UNCHANGED <<clientVars, allowedResult, unwrapped, operationState, executions, demoVars>>

\* The action of helper call h settles with resp: the helper unwraps it and
\* returns the payload, or its catch block runs.
HandlerActionReturns(h, resp) ==
    /\ handlers[h].pc = "action"
    /\ handlers' =
           [handlers EXCEPT ![h] =
               LET call == handlers[h]
                   r == Unwrapped(resp)
                   caught == HandlerCatch(call.name, r.value)
               IN  IF r.ok
                   THEN [call EXCEPT !.pc = "done", !.resp = resp,
                                     !.did = Some(Returned(r.value))]
                   ELSE [call EXCEPT !.pc = "done", !.resp = resp,
                                     !.did = Some(caught.did), !.logged = caught.logged]]
    /\ UNCHANGED <<clientVars, allowedResult, unwrapped, operationState, executions, demoVars>>

\* A server load function that calls the helpers; no page is involved.
InitHandlers ==
    /\ Constructed
    /\ variant = "sveltekit"
    /\ serverState = UndefinedV
    /\ isBrowser = FALSE

NextHandlers ==
    \/ \E name \in {"getCustomer", "getEntity"} : HandlerCall(name)
    \/ \E h \in 1..Len(handlers) : \E result \in CreateClientResults :
           CreateClientReturns(h, result)
    \/ \E h \in 1..Len(handlers) : \E resp \in HandlerResponses(handlers[h].name) :
           HandlerActionReturns(h, resp)

SpecHandlers == InitHandlers /\ [][NextHandlers]_vars

(* --------------------------- useAutumnOperation ------------------------- *)

\* The defaultOptions the instance was created with, as in the documented
\* example useAutumnOperation(autumn.checkout, { refetch: false }).
DefaultOptions == Some(FALSE)

\* { ...defaultOptions, ...executeOptions }: execute options take precedence.
MergedOptions(defaultOptions, executeOptions) ==
    IF executeOptions # None THEN executeOptions ELSE defaultOptions

\* What operation(params, mergedOptions) may do: resolve with a value (a
\* payload, or undefined for a Promise<void> wrapper) or reject.
OperationOutcomes ==
    {Returns(v) : v \in {Payload(None), UndefinedV}}
        \cup {Throws(v) : v \in ThrownValues}
        \cup {Throws(AutumnError(e, None)) : e \in ErrorArms}

\* execute() up to its await: isLoading = true; error = null.
executeStart(os) == [os EXCEPT !.isLoading = TRUE, !.error = NullV]

\* execute() after its await: try { result = operationResult }
\* catch (err) { error = ...; result = null } finally { isLoading = false }
executeSettle(os, outcome) ==
    IF ~outcome.threw THEN [os EXCEPT !.result = outcome.v, !.isLoading = FALSE]
    ELSE [os EXCEPT !.error = ToError(outcome.v), !.result = NullV, !.isLoading = FALSE]

\* An execute() whose catch block rethrows after storing the error.
executeReturnRethrow(outcome) ==
    IF ~outcome.threw THEN Returned(outcome.v) ELSE Thrown(outcome.v)

\* What execute() returns: return operationResult, or return null in catch.
executeReturn(outcome) ==
    IF ~outcome.threw THEN Returned(outcome.v) ELSE Returned(NullV)

\* execute(params, executeOptions) is called: it runs up to
\* await operation(params, mergedOptions).  The busy and reset fields record
\* history only: whether another execution was in flight when this one
\* started, and whether reset() was called while this one was in flight.
Execute(executeOptions) ==
    /\ Len(executions) < MaxExecutions
    /\ operationState' = executeStart(operationState)
    /\ executions' =
           Append(executions,
                  [options |-> MergedOptions(DefaultOptions, executeOptions),
                   promise |-> "pending", outcome |-> Throws(UndefinedV), returned |-> None,
                   busy |-> \E e \in 1..Len(executions) : executions[e].promise = "pending",
                   reset |-> FALSE])
    /\ UNCHANGED <<clientVars, allowedResult, unwrapped, handlers, demoVars>>

\* The operation awaited by execution e settles with outcome.
OperationSettles(e, outcome) ==
    /\ executions[e].promise = "pending"
    /\ operationState' = executeSettle(operationState, outcome)
    /\ executions' =
           [executions EXCEPT ![e].promise = IF executeReturn(outcome).ok THEN "resolved"
                                              ELSE "rejected",
                              ![e].outcome = outcome,
                              ![e].returned = Some(executeReturn(outcome))]
    /\ UNCHANGED <<clientVars, allowedResult, unwrapped, handlers, demoVars>>

\* A reset() that also abandons the executions in flight.
ResetCancels ==
    /\ operationState' = InitialOperationState
    /\ executions' =
           [e \in 1..Len(executions) |->
               IF executions[e].promise = "pending"
               THEN [executions[e] EXCEPT !.reset = TRUE, !.promise = "cancelled"]
               ELSE executions[e]]
    /\ UNCHANGED <<clientVars, allowedResult, unwrapped, handlers, demoVars>>

\* reset(): isLoading = false; error = null; result = null.
Reset ==
    /\ operationState' = InitialOperationState
    /\ executions' =
           [e \in 1..Len(executions) |->
               IF executions[e].promise = "pending" THEN [executions[e] EXCEPT !.reset = TRUE]
               ELSE executions[e]]
    /\ UNCHANGED <<clientVars, allowedResult, unwrapped, handlers, demoVars>>

\* A page of the SvelteKit application that uses one useAutumnOperation.
InitOperation == InitKit /\ serverState = UndefinedV

NextOperation ==
    \/ \E executeOptions \in {None, Some(TRUE)} : Execute(executeOptions)
    \/ \E e \in 1..Len(executions) : \E outcome \in OperationOutcomes :
           OperationSettles(e, outcome)
    \/ Reset

SpecOperation == InitOperation /\ [][NextOperation]_vars

\* The same page when it calls execute() only, possibly again before an
\* earlier execution has settled.
NextExecute ==
    \/ \E executeOptions \in {None, Some(TRUE)} : Execute(executeOptions)
    \/ \E e \in 1..Len(executions) : \E outcome \in OperationOutcomes :
           OperationSettles(e, outcome)

SpecExecute == InitOperation /\ [][NextExecute]_vars

(* --------------------- local client: checks and refreshes --------------- *)

\* What the createCustomer call of a fetch may do when the customer carries
\* a features map: return the customer with balance 10 or with balance 0 for
\* "messages", an envelope without payload, or throw.
RefreshResponses ==
    {Returns(Envelope(CustomerWith([f \in {"messages"} |-> Feature(Some(b))]), NullV)) :
        b \in {0, 10}}
        \cup {Returns(Envelope(NullV, e)) : e \in ErrorArms}
        \cup {Throws(ErrorV("Connection lost"))}

\* A page of the local client that calls allowed() and track() while
\* customer fetches are in flight.
NextRefresh ==
    \/ Call("track", PlainParams, None)
    \/ \E c \in calls : ActionReturns(c, Returns(Envelope(Payload(None), NullV)))
    \/ \E c \in calls : Resume(c)
    \/ RefetchLocal
    \/ \E f \in 1..Len(fetches) : \E resp \in RefreshResponses : FetchReturns(f, resp)
    \/ \E featureId \in FeatureIds : Allowed([featureId |-> featureId, requiredBalance |-> None])

SpecRefresh == InitLocal /\ [][NextRefresh]_vars

(* ------------------------- either client, checked ------------------------ *)

\* The customers the server load may yield when customers carry a features map.
RefreshCustomers ==
    {CustomerWith([f \in {"messages"} |-> Feature(Some(b))]) : b \in {0, 10}} \cup {NullV}

\* A page of either client that calls the wrappers and allowed(), the cache
\* being refreshed by the wrappers only.
NextEither ==
    \/ \E op \in Ops : \E options \in OptionsOf(op) : Call(op, PlainParams, options)
    \/ \E c \in calls : \E resp \in ActionResponses(c.w) : ActionReturns(c, resp)
    \/ \E c \in calls : Resume(c)
    \/ \E f \in 1..Len(fetches) : \E resp \in RefreshResponses : FetchReturns(f, resp)
    \/ \E i \in 1..Len(invalidations) : \E c \in RefreshCustomers : InvalidateReruns(i, c)
    \/ Resync
    \/ Allowed([featureId |-> "messages", requiredBalance |-> None])

SpecEither == Init /\ [][NextEither]_vars

(* ------------------------- demo: the send action ------------------------ *)

\* Runs of the send action made during one run.
MaxSends == 2

\* A document id of the users table.
UserId(id) == [tag |-> "id", id |-> id]

\* What await getAuthUserId(ctx) may yield: the id of the signed-in user, or
\* null when the request carries no session.
AuthResults == {Returns(UserId("user-1")), Returns(NullV)}

\* The data arm of a check envelope.
CheckData(isAllowed) == [tag |-> "check", allowed |-> isAllowed]

\* What await autumn.check(ctx, { featureId: "messages" }) may do: return an
\* envelope whose data says allowed or not, an envelope without data, or throw.
CheckResults ==
    {Returns(Envelope(CheckData(a), NullV)) : a \in BOOLEAN}
        \cup {Returns(Envelope(NullV, e)) : e \in ErrorArms}
        \cup {Throws(ErrorV("Connection lost"))}

\* What await ctx.runMutation(internal.messages.insertMessage, ...) may do:
\* the mutation commits its insert and returns, or it throws and inserts nothing.
InsertResults == {Returns(NullV), Throws(ErrorV("Connection lost"))}

\* What await autumn.track(ctx, { featureId: "messages", value: 1 }) may do:
\* return the envelope of a recorded event, the envelope of a refused one, or
\* throw.
TrackResults ==
    {Returns(Envelope(Payload(None), NullV))}
        \cup {Returns(Envelope(NullV, e)) : e \in ErrorArms}
        \cup {Throws(ErrorV("Connection lost"))}

\* Whether a track call made Autumn record the usage event.
Recorded(result) == ~result.threw /\ result.v.error = NullV /\ result.v.data # NullV

\* A run of the send handler suspended at await getAuthUserId(ctx).  The
\* inserted and tracked fields record history only: whether this run's
\* insert was committed and whether its usage event was recorded.
NewSend(body) ==
    [body |-> body, pc |-> "auth", userId |-> NullV, status |-> "pending", error |-> NullV,
     inserted |-> FALSE, tracked |-> FALSE]

\* The run ends by throwing error.
SendThrows(run, error) == [run EXCEPT !.pc = "done", !.status = "rejected", !.error = error]

\* const { data: checkData } = await autumn.check(...);
\* if (!checkData || !checkData.allowed) throw new Error("Message limit reached. ...")
sendChecked(run, result) ==
    IF result.threw THEN SendThrows(run, result.v)
    ELSE IF result.v.data \in {NullV, UndefinedV} \/ ~result.v.data.allowed
         THEN SendThrows(run, ErrorV("Message limit reached. Upgrade to Pro!"))
         ELSE [run EXCEPT !.pc = "insert"]

\* ctx.db.insert("messages", { body, userId })
MessageRow(body, userId) == [body |-> body, userId |-> userId]

\* The send action is invoked with { body }.
SendCall(body) ==
    /\ Len(sends) < MaxSends
    /\ sends' = Append(sends, NewSend(body))
    /\ UNCHANGED <<clientVars, allowedResult, unwrapped, handlers, operationState, executions,
                   messages, usage, newMessageText, submits>>

\* getAuthUserId(ctx) of run s settles: if (userId === null) throw "Not signed in".
AuthReturns(s, result) ==
    /\ sends[s].pc = "auth"
    /\ sends' =
           [sends EXCEPT ![s] =
               IF result.v = NullV THEN SendThrows(sends[s], ErrorV("Not signed in"))
               ELSE [sends[s] EXCEPT !.pc = "check", !.userId = result.v]]
    /\ UNCHANGED <<clientVars, allowedResult, unwrapped, handlers, operationState, executions,
                   messages, usage, newMessageText, submits>>

\* autumn.check of run s settles.
CheckReturns(s, result) ==
    /\ sends[s].pc = "check"
    /\ sends' = [sends EXCEPT ![s] = sendChecked(sends[s], result)]
    /\ UNCHANGED <<clientVars, allowedResult, unwrapped, handlers, operationState, executions,
                   messages, usage, newMessageText, submits>>

\* The insertMessage mutation of run s settles: committed, the row is in the
\* table and the handler goes on to autumn.track; thrown, the handler ends.
InsertReturns(s, result) ==
    /\ sends[s].pc = "insert"
    /\ messages' =
           IF result.threw THEN messages
           ELSE Append(messages, MessageRow(sends[s].body, sends[s].userId))
    /\ sends' =
           [sends EXCEPT ![s] =
               IF result.threw THEN SendThrows(sends[s], result.v)
               ELSE [sends[s] EXCEPT !.pc = "track", !.inserted = TRUE]]
    /\ UNCHANGED <<clientVars, allowedResult, unwrapped, handlers, operationState, executions,
                   usage, newMessageText, submits>>

\* autumn.track of run s settles: the handler does not look at the envelope
\* and returns; a throw ends it.  No statement of the handler removes the row.
TrackReturns(s, result) ==
    /\ sends[s].pc = "track"
    /\ usage' = IF Recorded(result) THEN usage + 1 ELSE usage
    /\ sends' =
           [sends EXCEPT ![s] =
               IF result.threw THEN SendThrows(sends[s], result.v)
               ELSE [sends[s] EXCEPT !.pc = "done", !.status = "resolved",
                                     !.tracked = Recorded(result)]]
    /\ UNCHANGED <<clientVars, allowedResult, unwrapped, handlers, operationState, executions,
                   messages, newMessageText, submits>>

\* The Convex backend of the demo, its send action called by any client.
InitSend == InitKit /\ serverState = UndefinedV

NextSend ==
    \/ \E body \in {"hi", "yo"} : SendCall(body)
    \/ \E s \in 1..Len(sends) : \E result \in AuthResults : AuthReturns(s, result)
    \/ \E s \in 1..Len(sends) : \E result \in CheckResults : CheckReturns(s, result)
    \/ \E s \in 1..Len(sends) : \E result \in InsertResults : InsertReturns(s, result)
    \/ \E s \in 1..Len(sends) : \E result \in TrackResults : TrackReturns(s, result)

SpecSend == InitSend /\ [][NextSend]_vars

(* ------------------------- demo: the Chat component --------------------- *)

\* handleSubmit() calls made during one run.
MaxSubmits == 2

\* The characters String.prototype.trim removes, as far as the inputs go.
Whitespace == {" "}

\* String.prototype.trim
Trim(text) ==
    LET kept == {i \in 1..Len(text) : SubSeq(text, i, i) \notin Whitespace}
    IN  IF kept = {} THEN ""
        ELSE SubSeq(text, CHOOSE i \in kept : \A j \in kept : i <= j,
                          CHOOSE i \in kept : \A j \in kept : i >= j)

\* What the user may type into the input bound to newMessageText.
Texts == {"", "  ", " hi "}

\* A handler that calls refetch() in a finally block.
submitRefetchesFinally(status) == TRUE

\* Whether handleSubmit reaches await refetch(): it stands in the try block
\* after await client.action(api.messages.send, ...), which throws past it
\* when the action fails.
submitRefetches(status) == status = "resolved"

\* The user edits the input (bind:value={newMessageText}).
Type(text) ==
    /\ newMessageText # text
    /\ newMessageText' = text
    /\ UNCHANGED <<clientVars, allowedResult, unwrapped, handlers, operationState, executions,
                   messages, usage, sends, submits>>

\* handleSubmit(event) is called: if (newMessageText.trim() === '') return;
\* otherwise it runs up to await client.action(api.messages.send, { body }),
\* which starts a run of the send action.
Submit ==
    /\ Len(submits) < MaxSubmits
    /\ IF Trim(newMessageText) = ""
       THEN /\ submits' =
                   Append(submits,
                          [body |-> newMessageText, pc |-> "done", send |-> 0, rid |-> 0,
                           logged |-> <<>>])
            /\ sends' = sends
       ELSE /\ submits' =
                   Append(submits,
                          [body |-> newMessageText, pc |-> "action", send |-> Len(sends) + 1,
                           rid |-> 0, logged |-> <<>>])
            /\ sends' = Append(sends, NewSend(newMessageText))
    /\ UNCHANGED <<clientVars, allowedResult, unwrapped, handlers, operationState, executions,
                   messages, usage, newMessageText>>

\* The action awaited by submit u has settled.  Resolved: newMessageText = '';
\* then the handler calls refetch(), which signals invalidate('autumn:customer'),
\* and awaits it.  Rejected: the catch block logs the error and the handler ends.
ActionSettled(u) ==
    LET run == sends[submits[u].send]
    IN  /\ submits[u].pc = "action"
        /\ run.status # "pending"
        /\ newMessageText' = IF run.status = "resolved" THEN "" ELSE newMessageText
        /\ invalidations' =
               IF submitRefetches(run.status) THEN Append(invalidations, NewInvalidation(-1))
               ELSE invalidations
        /\ submits' =
               [submits EXCEPT ![u] =
                   IF submitRefetches(run.status)
                   THEN [submits[u] EXCEPT !.pc = "refetch", !.rid = Len(invalidations) + 1,
                                           !.logged = IF run.status = "resolved" THEN <<>>
                                                      ELSE <<run.error>>]
                   ELSE [submits[u] EXCEPT !.pc = "done", !.logged = <<run.error>>]]
        /\ UNCHANGED <<variant, localVars, _state, serverState, effectPending, calls, nCalls,
                       settled, isBrowser, effects, allowedResult, unwrapped, handlers,
                       operationState, executions, messages, usage, sends>>

\* The invalidation awaited by submit u has settled: the handler ends.
RefetchSettled(u) ==
    /\ submits[u].pc = "refetch"
    /\ Awaited(invalidations[submits[u].rid].promise)
    /\ submits' = [submits EXCEPT ![u].pc = "done"]
    /\ UNCHANGED <<clientVars, allowedResult, unwrapped, handlers, operationState, executions,
                   messages, usage, sends, newMessageText>>

\* The chat page of a user whose layout load yielded a customer.
InitChat == InitKit /\ serverState = [customer |-> Customer("Ada", 10)]

NextChat ==
    \/ \E text \in Texts : Type(text)
    \/ Submit
    \/ \E s \in 1..Len(sends) : \E result \in AuthResults : AuthReturns(s, result)
    \/ \E s \in 1..Len(sends) : \E result \in CheckResults : CheckReturns(s, result)
    \/ \E s \in 1..Len(sends) : \E result \in InsertResults : InsertReturns(s, result)
    \/ \E s \in 1..Len(sends) : \E result \in TrackResults : TrackReturns(s, result)
    \/ \E u \in 1..Len(submits) : ActionSettled(u)
    \/ \E u \in 1..Len(submits) : RefetchSettled(u)
    \/ \E i \in 1..Len(invalidations) : InvalidateReruns(i, Customer("Bob", 9))
    \/ Resync

SpecChat == InitChat /\ [][NextChat]_vars

TypeOK ==
    /\ variant \in {"svelte", "sveltekit"}
    /\ customerState.isLoading \in BOOLEAN
    /\ nCalls \in 0..MaxCalls
    /\ Len(fetches) <= MaxRefreshes
    /\ Len(invalidations) <= MaxRefreshes

(* ------------------------- notions of the claims ------------------------ *)

IsSnapshot(v) == v.tag = "customer"

\* The cache of the client in use.
Cache == IF variant = "svelte" THEN customerState ELSE _state

\* What a completed fetch is to leave in data: the snapshot of a success
\* envelope, absent (null) otherwise.
SnapshotOrAbsent(resp) ==
    IF ~resp.threw /\ resp.v.error = NullV /\ IsSnapshot(resp.v.data) THEN resp.v.data
    ELSE NullV

\* The remote call failed: it threw, or its envelope carries an error or
\* neither payload nor error.
RemoteFailed(resp) ==
    resp.threw \/ resp.v.error # NullV \/ resp.v.data \in {NullV, UndefinedV}

\* The fetches (or invalidations) wrapper call id has started.
StartedBy(id) == {r \in 1..Len(Refreshes) : Refreshes[r].by = id}

\* In this step wrapper call c settles.
SettlesNow(c) == c \in calls /\ settled.id # c.id /\ settled'.id = c.id

\* In this step wrapper call c gets past its unwrap without rejecting.
UnwrapsNow(c) ==
    /\ c \in calls
    /\ c.pc = "action"
    /\ c \notin calls'
    /\ ~(SettlesNow(c) /\ settled'.status = "rejected")

\* In this step wrapper call c starts exactly one refresh and awaits it.
StartsRefresh(c) ==
    \E d \in calls' :
        /\ d.id = c.id
        /\ d.pc = "refresh"
        /\ Len(Refreshes') = Len(Refreshes) + 1
        /\ d.rid = Len(Refreshes')
        /\ Refreshes'[d.rid].by = c.id
        /\ Refreshes'[d.rid].promise = "pending"
        /\ \A r \in 1..Len(Refreshes) : Refreshes'[r] = Refreshes[r]

\* In this step no fetch and no invalidation is started and the cache stays.
NoRefreshNoWrite ==
    UNCHANGED <<customerState, fetches, lastDone, _state, invalidations>>

\* The code of attach and of cancel.
VoidWrappers == {WrapperOf("attach"), WrapperOf("cancel")}

(* -------------------------------- C1 ------------------------------------ *)

\* The steps of a local mutating wrapper called with default options: past
\* its unwrap it starts one fetch; it resolves, with `value`, only once that
\* fetch has completed and written the cache, having started no other fetch.
C1_Steps(c, value) ==
    /\ (UnwrapsNow(c) /\ c.w.mutating /\ c.options = None)
           => StartsRefresh(c) /\ customerState'.isLoading
    /\ (SettlesNow(c) /\ c.pc = "refresh")
           => /\ settled'.status = "resolved"
              /\ settled'.value = value
              /\ fetches[c.rid].promise = "resolved"
              /\ lastDone.fid # 0
              /\ StartedBy(c.id) = {c.rid}
              /\ UNCHANGED <<customerState, fetches, lastDone>>
              /\ lastDone.fid = c.rid => customerState.data = SnapshotOrAbsent(lastDone.resp)

\* C1 as stated: each of the nine mutating wrappers of the local client,
\* called with default options and unwrapping successfully, starts exactly
\* one customer fetch after the remote call returns and resolves with the
\* unwrapped payload only after that fetch has completed and written the cache.
C1_ResolvesWithPayloadAfterFetch ==
    [][\A c \in calls : C1_Steps(c, c.payload)]_vars

\* C1 amended: as C1, but attach and cancel (Promise<void>) resolve with no
\* value; the other seven wrappers resolve with the unwrapped payload.
C1_ResolvesAfterFetch ==
    [][\A c \in calls :
          C1_Steps(c, IF c.w \in VoidWrappers THEN UndefinedV ELSE c.payload)]_vars

\* A mutating wrapper has resolved with its payload after its refresh fetch,
\* the last to complete, returned balance 9: the cache reads 9.
C1_Witness ==
    /\ variant = "svelte"
    /\ settled.status = "resolved"
    /\ settled.value = Payload(None)
    /\ settled.rid > 0
    /\ lastDone.fid = settled.rid
    /\ customerState.data = Customer("Bob", 9)

(* -------------------------------- C2 ------------------------------------ *)

\* The error a wrapper is to reject with when its remote call did resp: the
\* thrown value itself, or a typed error with the envelope's code, or NO_DATA.
IsRejectionOf(value, resp) ==
    IF resp.threw THEN value = resp.v
    ELSE /\ value.tag = "AutumnError"
         /\ value.code = IF resp.v.error # NullV THEN resp.v.error.code ELSE "NO_DATA"

\* C2: in both clients a mutating wrapper whose remote call fails (throw,
\* error envelope, or envelope with neither arm) rejects with that error,
\* starts no fetch and no invalidation, and leaves the cache unchanged.
C2_FailureSkipsRefresh ==
    [][/\ \A c \in calls :
              (SettlesNow(c) /\ c.pc = "action" /\ c.w.mutating
                   /\ RemoteFailed(settled'.resp))
                  => /\ settled'.status = "rejected"
                     /\ IsRejectionOf(settled'.value, settled'.resp)
                     /\ settled'.rid = 0
                     /\ StartedBy(c.id)' = {}
                     /\ NoRefreshNoWrite
       /\ \A d \in calls' : d.pc = "refresh" => ~RemoteFailed(d.resp)]_vars

\* A mutating wrapper has rejected with the typed error of a business error
\* envelope, and nothing was refreshed on its behalf.
C2_Witness ==
    /\ settled.mutating
    /\ settled.status = "rejected"
    /\ ~settled.resp.threw
    /\ settled.resp.v.error \in ErrorArms
    /\ settled.value = AutumnError(settled.resp.v.error, None)
    /\ StartedBy(settled.id) = {}

(* -------------------------------- C3 ------------------------------------ *)

\* The steps of a mutating wrapper called with {refetch: false} whose remote
\* call succeeds, and of any wrapper with respect to the cached snapshot.
C3_Steps(returned(_, _)) ==
    /\ \A c \in calls :
           (SettlesNow(c) /\ c.pc = "action" /\ c.w.mutating
                /\ c.options = Some(FALSE) /\ ~RemoteFailed(settled'.resp))
               => /\ settled'.status = "resolved"
                  /\ settled'.value = returned(c.w, settled'.resp.v.data)
                  /\ settled'.rid = 0
                  /\ StartedBy(c.id)' = {}
                  /\ NoRefreshNoWrite
    /\ \A d \in calls' : d.options = Some(FALSE) => d.pc = "action"
    /\ calls' # calls => customerState'.data = customerState.data /\ _state' = _state

C3_Payload(w, payload) == payload

C3_PayloadOrVoid(w, payload) == IF w \in VoidWrappers THEN UndefinedV ELSE payload

\* C3 as stated: in both clients a mutating wrapper called with
\* {refetch: false} whose remote call succeeds starts no fetch and no
\* invalidation, returns the unwrapped payload and leaves the cache
\* unchanged; no wrapper step ever writes the cached snapshot.
C3_NoRefetchReturnsPayload == [][C3_Steps(C3_Payload)]_vars

\* C3 amended: as C3, but attach and cancel (Promise<void>) return no value;
\* the other seven mutating wrappers return the unwrapped payload.
C3_NoRefetchNoRefresh == [][C3_Steps(C3_PayloadOrVoid)]_vars

\* A mutating wrapper called with {refetch: false} has resolved with its
\* payload, a checkout URL, without any refresh.
C3_Witness ==
    /\ settled.mutating
    /\ settled.status = "resolved"
    /\ settled.rid = 0
    /\ settled.value = Payload(Some("https://billing.test/session"))
    /\ StartedBy(settled.id) = {}

(* -------------------------------- C4 ------------------------------------ *)

\* The code of getEntity, listProducts, usage, query and openBillingPortal.
ReadOnlyWrappers == {WrapperOf(op) : op \in ReadOnlyOps}

\* C4: the read-only wrappers (getEntity, listProducts, usage, query,
\* openBillingPortal) of both clients never start a fetch or an invalidation
\* and never change the cache, whether the remote call succeeds or fails and
\* whatever options are passed.
C4_ReadOnlyNeverRefreshes ==
    [][/\ \A c \in calls \cup calls' :
              (c.w \in ReadOnlyWrappers /\ (c \notin calls \/ c \notin calls'))
                  => NoRefreshNoWrite /\ StartedBy(c.id)' = {}
       /\ \A d \in calls' : d.w \in ReadOnlyWrappers => d.pc = "action"]_vars

\* A read-only wrapper (listProducts) has resolved with its list and no
\* refresh was ever started on its behalf.
C4_Witness ==
    /\ ~settled.mutating
    /\ settled.status = "resolved"
    /\ settled.value = ListV(<<"free", "pro">>)
    /\ StartedBy(settled.id) = {}

(* -------------------------------- C5 ------------------------------------ *)

NoPending == \A f \in 1..Len(fetches) : fetches[f].promise # "pending"

\* C5: the local client neither serializes, de-duplicates nor cancels
\* fetches: refetch() can be called and a pending fetch can complete whatever
\* else is in flight, a new fetch is a remote call of its own that leaves the
\* earlier ones as they are, and once no fetch is in flight data is the
\* outcome of the fetch that completed last, whatever the start order.
C5_LastCompletedFetchWins ==
    /\ [](variant = "svelte" =>
            /\ Len(fetches) < MaxRefreshes => ENABLED RefetchLocal
            /\ \A f \in 1..Len(fetches) :
                   fetches[f].promise = "pending"
                       => \A resp \in FetchResponses : ENABLED FetchReturns(f, resp)
            /\ NoPending => customerState.data = SnapshotOrAbsent(lastDone.resp))
    /\ [][Len(fetches') > Len(fetches)
              => /\ Len(fetches') = Len(fetches) + 1
                 /\ fetches'[Len(fetches')].promise = "pending"
                 /\ \A f \in 1..Len(fetches) : fetches'[f] = fetches[f]]_vars

\* Two fetches overlapped and the one started first completed last: data is
\* its snapshot, not that of the fetch started later.
C5_Witness ==
    /\ variant = "svelte"
    /\ Len(fetches) = 2
    /\ fetches[2].busy
    /\ NoPending
    /\ lastDone.fid = 1
    /\ customerState.data = Customer("Ada", 10)
    /\ lastDone.prev = Customer("Bob", 9)

(* ------------------------------ C6, C7 ---------------------------------- *)

\* In this step fetch f completes.
Completes(f) == fetches[f].promise = "pending" /\ fetches'[f].promise # "pending"

\* No other fetch was in flight at any time while fetch f, still pending, was:
\* none was when it started and none has been started since.
Alone(f) == ~fetches[f].busy /\ Len(fetches) = f

\* C6 as stated: a fetch of the local client with no other fetch in flight
\* whose remote call returns an envelope with no error arm completes with
\* isLoading = false, error = null and data = the returned snapshot, or
\* absent when the envelope reports no customer (null payload).
C6_NoErrorArmCompletesClean ==
    [][\A f \in 1..Len(fetches) :
          LET resp == lastDone'.resp
          IN  (Completes(f) /\ Alone(f) /\ ~resp.threw /\ resp.v.error = NullV
                   /\ (IsSnapshot(resp.v.data) \/ resp.v.data = NullV))
                  => customerState' =
                         [data |-> resp.v.data, isLoading |-> FALSE, error |-> NullV]]_vars

\* The steps of a fetch with no other fetch in flight whose remote call throws
\* or returns an error envelope; stored(thrown) is the error kept for a throw.
C7_Steps(stored(_)) ==
    \A f \in 1..Len(fetches) :
        LET resp == lastDone'.resp
        IN  (Completes(f) /\ Alone(f) /\ (resp.threw \/ resp.v.error # NullV))
                => /\ customerState'.data = NullV
                   /\ customerState'.isLoading = FALSE
                   /\ IF resp.threw THEN customerState'.error = stored(resp.v)
                      ELSE /\ customerState'.error.tag = "AutumnError"
                           /\ customerState'.error.code = resp.v.error.code
                   /\ fetches'[f].promise = "resolved"

C7_Same(thrown) == thrown

C7_AsError(thrown) ==
    IF thrown.tag = "string" THEN [tag |-> "Error", message |-> thrown.value] ELSE thrown

\* C7 as stated: a fetch of the local client with no other fetch in flight
\* whose remote call throws or returns an error envelope completes with
\* data = absent, error = the caught error (a typed error with the envelope's
\* code for a business error) and isLoading = false, and its promise resolves.
C7_FailureStoresCaughtError == [][C7_Steps(C7_Same)]_vars

\* C7 amended: as C7, but a thrown value that is not an Error instance is
\* stored wrapped, as new Error(String(value)).
C7_FailureStoresError == [][C7_Steps(C7_AsError)]_vars

\* A refetch() with no other fetch in flight has failed with a thrown Error:
\* its promise resolved, the error is in the cache and data is absent.
C7_Witness ==
    /\ variant = "svelte"
    /\ lastDone.fid = 2
    /\ fetches[2].by = -1
    /\ ~fetches[2].busy
    /\ fetches[2].promise = "resolved"
    /\ lastDone.resp = Throws(ErrorV("Connection lost"))
    /\ customerState = [data |-> NullV, isLoading |-> FALSE, error |-> ErrorV("Connection lost")]

(* -------------------------------- C8 ------------------------------------ *)

\* C8: constructing the local client starts exactly one customer fetch, and
\* until that fetch completes, as long as no other fetch is started, the state
\* is data = unknown, isLoading = true, error = null.
C8_LoadingUntilFirstFetch ==
    variant = "svelte" =>
        /\ Len(fetches) >= 1
        /\ {f \in 1..Len(fetches) : fetches[f].by = 0} = {1}
        /\ (Len(fetches) = 1 /\ fetches[1].promise = "pending")
               => customerState = [data |-> UndefinedV, isLoading |-> TRUE, error |-> NullV]

\* The client has just been constructed: its one fetch is in flight and no
\* operation has been called.
C8_Witness ==
    /\ variant = "svelte"
    /\ nCalls = 0
    /\ Len(fetches) = 1
    /\ fetches[1] = [by |-> 0, promise |-> "pending", busy |-> FALSE]
    /\ customerState.isLoading

(* -------------------------------- C9 ------------------------------------ *)

\* C9: in the local client data = unknown (undefined) if and only if no
\* customer fetch has completed yet.
C9_UnknownIffNothingFetched ==
    variant = "svelte" =>
        (customerState.data = UndefinedV
             <=> \A f \in 1..Len(fetches) : fetches[f].promise = "pending")

\* A fetch has completed with no customer and a refresh is in flight: data is
\* absent, not unknown.
C9_Witness ==
    /\ variant = "svelte"
    /\ lastDone.fid = 1
    /\ Len(fetches) = 2
    /\ fetches[2].promise = "pending"
    /\ customerState.isLoading
    /\ customerState.data = NullV

(* -------------------------------- C10 ----------------------------------- *)

\* The steps that change a cached snapshot: only the completion of a fetch,
\* which puts the whole payload of its success envelope in its place, or
\* absent when mayClear(resp) holds of what its remote call did.
C10_Steps(mayClear(_)) ==
    (IsSnapshot(customerState.data) /\ customerState'.data # customerState.data)
        => \E f \in 1..Len(fetches) :
               LET resp == lastDone'.resp
               IN  /\ Completes(f)
                   /\ lastDone'.fid = f
                   /\ \/ /\ ~RemoteFailed(resp)
                         /\ customerState'.data = resp.v.data
                      \/ /\ mayClear(resp)
                         /\ customerState'.data = NullV

\* The remote call explicitly reports no customer: a null payload, no error.
C10_ReportsNoCustomer(resp) == ~resp.threw /\ resp.v.error = NullV /\ resp.v.data = NullV

\* C10 as stated: a cached snapshot changes only by being replaced wholesale
\* with the payload of a later successful refresh, and becomes absent only
\* when the remote call explicitly reports no customer.
C10_AbsentOnlyWhenNoCustomer == [][C10_Steps(C10_ReportsNoCustomer)]_vars

\* C10 amended: a cached snapshot changes only by being replaced wholesale
\* with the payload of a later successful refresh, or by absent when a later
\* refresh fails: the remote call throws, returns an error envelope, or
\* returns no payload.
C10_ReplacedWholesaleOrCleared == [][C10_Steps(RemoteFailed)]_vars

\* A cached snapshot has been replaced wholesale by that of a later refresh.
C10_Witness ==
    /\ variant = "svelte"
    /\ lastDone.fid = 2
    /\ lastDone.prev = Customer("Ada", 10)
    /\ lastDone.resp = Returns(Envelope(Customer("Bob", 9), NullV))
    /\ customerState.data = Customer("Bob", 9)

(* -------------------------------- C11 ----------------------------------- *)

\* In this step wrapper call c, mutating and with refetch enabled, gets its
\* envelope and unwraps it successfully.
C11_UnwrapsWithRefetch(c) ==
    /\ c.pc = "action"
    /\ c.w.mutating
    /\ RefetchOf(c.options)
    /\ \E d \in calls' : d.id = c.id /\ d.pc = "refresh" /\ Unwrapped(d.resp).ok

\* C11: the local client fetches once at construction, and afterwards a
\* customer fetch is started only by a refetch() call or by a mutating
\* wrapper with refetch enabled whose remote call has just unwrapped
\* successfully, one fetch each; so the fetches started number 1 + the
\* refetch() calls + those wrapper calls, and the completion of a fetch,
\* failed or not, starts none.
C11_NoFetchOfItsOwn ==
    /\ [](variant = "svelte" => Len(fetches) >= 1 /\ fetches[1].by = 0)
    /\ [][variant = "svelte" /\ fetches' # fetches
              => \/ /\ Len(fetches') = Len(fetches)
                    /\ \E f \in 1..Len(fetches) : Completes(f)
                 \/ /\ Len(fetches') = Len(fetches) + 1
                    /\ \A f \in 1..Len(fetches) : fetches'[f] = fetches[f]
                    /\ \/ RefetchLocal
                       \/ \E c \in calls : C11_UnwrapsWithRefetch(c)]_vars

\* The construction-time fetch failed, a wrapper was called and rejected, and
\* still only that one fetch has been started.
C11_Witness ==
    /\ variant = "svelte"
    /\ Len(fetches) = 1
    /\ fetches[1].promise = "resolved"
    /\ lastDone.resp = Throws(ErrorV("Connection lost"))
    /\ customerState.error = ErrorV("Connection lost")
    /\ settled.status = "rejected"

(* ----------------------------- C12, C13 --------------------------------- *)

\* C12: in both clients allowed({featureId, requiredBalance}), requiredBalance
\* defaulting to 1, returns deny "No customer data" if no snapshot is cached,
\* else deny "Feature not found" if the snapshot has no entry for featureId,
\* else deny "Insufficient balance: <balance> < <requiredBalance>" if the
\* balance is defined and strictly less than requiredBalance, else allow; so
\* an equal balance allows, an undefined balance allows whatever is required,
\* and a balance of 0 denies when at least 1 is required.
C12_AllowedDecides ==
    allowedResult # UndefinedV =>
        LET customer == CachedCustomer
            featureId == allowedResult.params.featureId
            required == IF allowedResult.params.requiredBalance = None THEN 1
                        ELSE allowedResult.params.requiredBalance[1]
            hasEntry == /\ "features" \in DOMAIN customer
                        /\ featureId \in DOMAIN customer.features
            balance == customer.features[featureId].balance
            did == allowedResult.did
        IN  /\ did.ok
            /\ did.value =
                   IF ~IsSnapshot(customer) THEN [allowed |-> FALSE, reason |-> "No customer data"]
                   ELSE IF ~hasEntry THEN [allowed |-> FALSE, reason |-> "Feature not found"]
                   ELSE IF balance # None /\ balance[1] < required
                        THEN [allowed |-> FALSE,
                              reason |-> "Insufficient balance: " \o ToString(balance[1])
                                             \o " < " \o ToString(required)]
                        ELSE [allowed |-> TRUE]
            /\ (IsSnapshot(customer) /\ hasEntry)
                   => /\ balance = Some(required) => did.value.allowed
                      /\ balance = None => did.value.allowed
                      /\ (balance = Some(0) /\ required >= 1) => ~did.value.allowed

\* The SvelteKit client holds a balance of 10 and 11 are required: denied with
\* the reason "Insufficient balance: 10 < 11".
C12_Witness ==
    /\ variant = "sveltekit"
    /\ allowedResult # UndefinedV
    /\ allowedResult.params = [featureId |-> "messages", requiredBalance |-> Some(11)]
    /\ CachedCustomer = CustomerWith([messages |-> Feature(Some(10))])
    /\ allowedResult.did = Returned([allowed |-> FALSE, reason |-> "Insufficient balance: 10 < 11"])

\* C13: whatever the cache holds and whatever featureId and requiredBalance
\* are, allowed() can be called, and in one step it returns exactly one of
\* allow and deny with a reason, without throwing, without starting a remote
\* call, a fetch or an invalidation, and without writing the cache.
C13_AllowedIsLocal ==
    /\ [](\A params \in CheckParams : ENABLED Allowed(params))
    /\ [][allowedResult' # allowedResult
              => /\ allowedResult'.did.ok
                 /\ LET result == allowedResult'.did.value
                    IN  \/ result = [allowed |-> TRUE]
                        \/ /\ DOMAIN result = {"allowed", "reason"}
                           /\ result.allowed = FALSE
                           /\ result.reason # ""
                 /\ UNCHANGED <<customerState, fetches, lastDone, _state, serverState,
                                effectPending, invalidations, calls, nCalls, settled,
                                effects>>]_vars

\* allowed() was called on a local client whose customer has no features
\* map: it returned deny "Feature not found", no wrapper call and no fetch
\* beyond the first was started, and the cache holds the same customer.
C13_Witness ==
    /\ variant = "svelte"
    /\ allowedResult # UndefinedV
    /\ customerState.data = Customer("Ada", 10)
    /\ allowedResult.did = Returned([allowed |-> FALSE, reason |-> "Feature not found"])
    /\ Len(fetches) = 1
    /\ calls = {}

(* -------------------------------- C14 ----------------------------------- *)

\* C14: unwrapAutumnResponse maps every envelope to one outcome: with a
\* populated error arm it throws an AutumnError whose code, message and
\* status code are the envelope's; with no error and a null or undefined
\* payload it throws an AutumnError with code "NO_DATA"; otherwise it returns
\* the payload unchanged; and unwrapping the same envelope again yields the
\* same outcome.
C14_UnwrapIsTotalAndPure ==
    unwrapped # UndefinedV =>
        LET response == unwrapped.response
            did == unwrapped.did
        IN  /\ \A i \in 1..Len(did) :
                   IF response.error \notin {NullV, UndefinedV}
                   THEN /\ ~did[i].ok
                        /\ did[i].value.tag = "AutumnError"
                        /\ did[i].value.code = response.error.code
                        /\ did[i].value.message = response.error.message
                        /\ did[i].value.statusCode = response.statusCode
                   ELSE IF response.data \in {NullV, UndefinedV}
                        THEN /\ ~did[i].ok
                             /\ did[i].value.tag = "AutumnError"
                             /\ did[i].value.code = "NO_DATA"
                        ELSE /\ did[i].ok
                             /\ did[i].value = response.data
            /\ Len(did) = 2 => did[1] = did[2]

\* An envelope with an error arm and status code 402 has been unwrapped
\* twice: both calls threw the AutumnError carrying that code and status.
C14_Witness ==
    /\ unwrapped # UndefinedV
    /\ Len(unwrapped.did) = 2
    /\ unwrapped.response =
           EnvelopeWith(NullV, ErrorArm("Not signed in", "unauthorized"), Some(402))
    /\ unwrapped.did[2] =
           [ok |-> FALSE,
            value |-> [tag |-> "AutumnError", message |-> "Not signed in",
                       code |-> "unauthorized", statusCode |-> Some(402)]]

(* -------------------------------- C15 ----------------------------------- *)

\* What the cache of the SvelteKit client is to mirror: the customer the
\* server-state accessor yields if that is a snapshot, absent otherwise (no
\* accessor, or no customer).
C15_Mirrored ==
    IF serverState # UndefinedV /\ IsSnapshot(serverState.customer) THEN serverState.customer
    ELSE NullV

\* C15: the cached customer of the SvelteKit client mirrors the external
\* server state: it is C15_Mirrored at construction, every resync pass sets
\* it to C15_Mirrored, and no other step (mutating or read-only wrapper,
\* refetch, invalidation, allowed) writes it; so it is C15_Mirrored whenever
\* no resync pass is pending.
C15_CacheMirrorsServerState ==
    /\ _state = [customer |-> C15_Mirrored]
    /\ [](~effectPending => _state = [customer |-> C15_Mirrored])
    /\ [][/\ (effectPending /\ ~effectPending') => _state' = [customer |-> C15_Mirrored]
          /\ _state' # _state => effectPending /\ ~effectPending']_vars

\* A mutating wrapper has resolved after its invalidation, the server load
\* yielded Bob, the resync pass has run and allowed() was called: the cache
\* holds Bob.
C15_Witness ==
    /\ variant = "sveltekit"
    /\ settled.mutating
    /\ settled.status = "resolved"
    /\ settled.rid = 1
    /\ ~effectPending
    /\ allowedResult # UndefinedV
    /\ serverState = [customer |-> Customer("Bob", 9)]
    /\ _state.customer = Customer("Bob", 9)

(* -------------------------------- C16 ----------------------------------- *)

\* The steps of the SvelteKit client's refreshes: a mutating wrapper called
\* with default options signals, past its unwrap, one invalidation with the
\* key 'autumn:customer' and fetches nothing; it resolves, with `value`, only
\* once that invalidation's promise has resolved, having signalled no other;
\* refetch() signals one such invalidation and does nothing else.
C16_Steps(returned(_)) ==
    /\ \A c \in calls :
           /\ (UnwrapsNow(c) /\ c.w.mutating /\ c.options = None)
                  => /\ StartsRefresh(c)
                     /\ invalidations'[Len(invalidations')].key = "autumn:customer"
                     /\ UNCHANGED <<customerState, fetches, lastDone, _state, serverState>>
           /\ (SettlesNow(c) /\ c.pc = "refresh")
                  => /\ settled'.status = "resolved"
                     /\ settled'.value = returned(c)
                     /\ invalidations[c.rid].promise = "resolved"
                     /\ StartedBy(c.id) = {c.rid}
                     /\ UNCHANGED <<customerState, fetches, lastDone, invalidations>>
    /\ (Len(invalidations') > Len(invalidations) /\ calls' = calls)
           => /\ invalidations' =
                     Append(invalidations,
                            [by |-> -1, key |-> "autumn:customer", promise |-> "pending"])
              /\ UNCHANGED <<customerState, fetches, lastDone, _state, serverState,
                             effectPending, nCalls, settled, effects>>

C16_Payload(c) == c.payload

C16_PayloadOrVoid(c) == IF c.w \in VoidWrappers THEN UndefinedV ELSE c.payload

ReturnsNow(c) == c \in calls /\ c.pc = "action" /\ c \notin calls'

\* What the remote action of wrapper call c, returning in this step, did.
RespNow(c) ==
    IF SettlesNow(c) THEN settled'.resp ELSE (CHOOSE d \in calls' : d.id = c.id).resp

\* The dialog callback's steps: when the remote action of a checkout call
\* returns, the callback is invoked once with the URL if the envelope unwraps,
\* its payload has a URL, params.dialog was supplied and context(isBrowser)
\* holds, and nothing is invoked otherwise; no other step invokes it.
C17_Steps(context(_)) ==
    /\ \A c \in calls :
           (ReturnsNow(c) /\ c.w.effect = "dialog")
               => LET r == Unwrapped(RespNow(c))
                  IN  IF r.ok /\ r.value.url # None /\ c.params.dialog /\ context(isBrowser)
                      THEN effects' = Append(effects, [kind |-> "dialog", url |-> r.value.url[1]])
                      ELSE effects' = effects
    /\ (\E e \in 1..Len(effects') : e > Len(effects) /\ effects'[e].kind = "dialog")
           => \E c \in calls : ReturnsNow(c) /\ c.w.effect = "dialog"

C17_Anywhere(browser) == TRUE

C17_InBrowser(browser) == browser

\* C17 as stated: checkout, in either client, invokes the dialog callback
\* exactly once with the URL if its remote call succeeds, the payload
\* contains a URL and the caller supplied the callback; if no URL is
\* returned, no callback was supplied or the remote call fails, the callback
\* is not invoked.
C17_DialogInvokedWithUrl == [][C17_Steps(C17_Anywhere)]_vars

\* C17 amended: as C17, with the further condition that the
\* interactive-client predicate (isBrowser) holds; in a server context the
\* callback is not invoked.
C17_DialogInvokedInBrowser == [][C17_Steps(C17_InBrowser)]_vars

\* In the browser a checkout with a dialog callback has resolved with a URL:
\* the callback was invoked once, with that URL.
C17_Witness ==
    /\ isBrowser
    /\ settled.status = "resolved"
    /\ settled.value = Payload(Some("https://billing.test/session"))
    /\ effects = <<[kind |-> "dialog", url |-> "https://billing.test/session"]>>

\* C18: when the remote action of a setupPayment or openBillingPortal call
\* returns, the wrapper navigates (location.href, window.open) once to the
\* payload's URL if the envelope unwraps, the payload has a URL and isBrowser
\* holds, and does not navigate otherwise; no other step navigates; outside
\* the browser a call that unwraps still returns its payload, setupPayment
\* with refetch enabled after the refresh it still starts.
C18_NavigatesOnlyInBrowser ==
    [][/\ \A c \in calls :
              /\ (ReturnsNow(c) /\ c.w.effect \in {"location.href", "window.open"})
                     => LET r == Unwrapped(RespNow(c))
                        IN  /\ IF r.ok /\ r.value.url # None /\ isBrowser
                               THEN effects' =
                                        Append(effects,
                                               [kind |-> c.w.effect, url |-> r.value.url[1]])
                               ELSE effects' = effects
                            /\ (r.ok /\ ~isBrowser)
                                   => IF c.w.mutating /\ RefetchOf(c.options)
                                      THEN StartsRefresh(c)
                                      ELSE /\ SettlesNow(c)
                                           /\ settled'.status = "resolved"
                                           /\ settled'.value = r.value
              /\ (SettlesNow(c) /\ c.pc = "refresh"
                      /\ c.w.effect \in {"location.href", "window.open"})
                     => /\ settled'.status = "resolved"
                        /\ settled'.value = c.payload
                        /\ effects' = effects
       /\ (\E e \in 1..Len(effects') :
               e > Len(effects) /\ effects'[e].kind \in {"location.href", "window.open"})
              => \E c \in calls :
                     ReturnsNow(c) /\ c.w.effect \in {"location.href", "window.open"}]_vars

\* Outside the browser a setupPayment call has resolved with a payload that
\* carries a URL, after the refresh it started: nothing was navigated.
C18_Witness ==
    /\ ~isBrowser
    /\ settled.mutating
    /\ settled.status = "resolved"
    /\ settled.value = Payload(Some("https://billing.test/session"))
    /\ settled.rid > 0
    /\ Refreshes[settled.rid].by = settled.id
    /\ effects = <<>>

(* -------------------------------- C19 ----------------------------------- *)

\* C19: a getCustomer or getEntity call that has ended has returned, not
\* thrown: the customer or entity when the client factory returned a client
\* and the remote call returned an envelope that unwraps, and null when the
\* factory threw, the remote call threw, or the envelope is an error or
\* empty, the unauthenticated error "No customer identifier found" included;
\* and a call that has not ended can always go on.
C19_HelpersNeverThrow ==
    \A h \in 1..Len(handlers) :
        LET call == handlers[h]
            unwraps == /\ ~call.client.threw
                       /\ ~call.resp.threw
                       /\ call.resp.v.error \in {NullV, UndefinedV}
                       /\ call.resp.v.data \notin {NullV, UndefinedV}
        IN  /\ call.pc = "done"
                => /\ call.did # None
                   /\ call.did[1].ok
                   /\ call.did[1].value = IF unwraps THEN call.resp.v.data ELSE NullV
            /\ call.pc = "createClient"
                => \A result \in CreateClientResults : ENABLED CreateClientReturns(h, result)
            /\ call.pc = "action"
                => \A resp \in HandlerResponses(call.name) : ENABLED HandlerActionReturns(h, resp)

\* An unauthenticated getCustomer has returned null without logging, and a
\* getEntity whose client factory threw has returned null.
C19_Witness ==
    /\ Len(handlers) = 2
    /\ handlers[1].name = "getCustomer"
    /\ handlers[1].resp.v = EnvelopeWith(NullV,
                                         ErrorArm("No customer identifier found", "unauthorized"),
                                         Some(401))
    /\ handlers[1].did = Some(Returned(NullV))
    /\ handlers[1].logged = <<>>
    /\ handlers[2].name = "getEntity"
    /\ handlers[2].client = Throws(ErrorV("Connection lost"))
    /\ handlers[2].did = Some(Returned(NullV))

(* -------------------------------- C20 ----------------------------------- *)

\* Execution e, in flight, is the only one: no other was in flight when it
\* started, none has been started since, and reset() has not been called.
C20_Single(e) == ~executions[e].busy /\ ~executions[e].reset /\ Len(executions) = e

\* C20: execute never rejects; while a single execution is in flight
\* isLoading is true and error is null; when the wrapped operation resolves,
\* execute stores the value in result, returns it and ends with isLoading =
\* false (and, for a single execution, error = null); when it rejects,
\* execute stores the error, wrapped in an Error if it is not one, sets
\* result to null, returns null and ends with isLoading = false.
C20_ExecuteNeverRejects ==
    /\ [](\A e \in 1..Len(executions) :
              /\ executions[e].promise \in {"pending", "resolved"}
              /\ (executions[e].promise = "pending" /\ C20_Single(e))
                     => operationState.isLoading /\ operationState.error = NullV)
    /\ [][\A e \in 1..Len(executions) :
              (executions[e].promise = "pending" /\ executions'[e].promise # "pending")
                  => LET outcome == executions'[e].outcome
                     IN  /\ executions'[e].promise = "resolved"
                         /\ operationState'.isLoading = FALSE
                         /\ IF ~outcome.threw
                            THEN /\ operationState'.result = outcome.v
                                 /\ executions'[e].returned = Some(Returned(outcome.v))
                                 /\ C20_Single(e) => operationState'.error = NullV
                            ELSE /\ operationState'.error =
                                        IF outcome.v.tag = "string"
                                        THEN [tag |-> "Error", message |-> outcome.v.value]
                                        ELSE outcome.v
                                 /\ operationState'.result = NullV
                                 /\ executions'[e].returned = Some(Returned(NullV))]_vars

\* A first execution resolved with a payload; a second one, started with
\* { refetch: true }, failed with a thrown string: execute returned null and
\* the error is stored wrapped in an Error.
C20_Witness ==
    /\ Len(executions) = 2
    /\ executions[1].outcome = Returns(Payload(None))
    /\ executions[1].returned = Some(Returned(Payload(None)))
    /\ ~executions[2].busy
    /\ executions[2].options = Some(TRUE)
    /\ executions[2].outcome = Throws(StringV("offline"))
    /\ executions[2].returned = Some(Returned(NullV))
    /\ operationState = [isLoading |-> FALSE, error |-> ErrorV("offline"), result |-> NullV]

(* -------------------------------- C21 ----------------------------------- *)

\* C21: the send action is atomic.  Of every run that has ended, the message
\* is stored if and only if its usage is tracked, and a run that failed has
\* neither stored its message nor tracked its usage.
C21_SendIsAtomic ==
    \A s \in 1..Len(sends) :
        sends[s].pc = "done"
            => /\ sends[s].inserted <=> sends[s].tracked
               /\ sends[s].status = "rejected" => ~sends[s].inserted /\ ~sends[s].tracked

(* -------------------------------- C22 ----------------------------------- *)

\* C22: in the local client, whenever no fetch is in flight and at least one
\* has completed, error is non-null if and only if the fetch that completed
\* last failed (its unwrap threw), and a non-null error never accompanies a
\* present snapshot, for every interleaving of overlapping fetches.
C22_ErrorIffLastFetchFailed ==
    (variant = "svelte" /\ NoPending /\ lastDone.fid > 0)
        => /\ customerState.error # NullV <=> ~Unwrapped(lastDone.resp).ok
           /\ ~(customerState.error # NullV /\ IsSnapshot(customerState.data))

(* -------------------------------- C23 ----------------------------------- *)

\* C23: in the local client isLoading is true in every state in which at
\* least one customer fetch is in flight, overlapping fetches included, and
\* false whenever none is in flight.
C23_LoadingIffFetchInFlight ==
    variant = "svelte" => (customerState.isLoading <=> ~NoPending)

(* -------------------------------- C24 ----------------------------------- *)

\* The steps of a local mutating wrapper whose remote call succeeded and that
\* awaits its refresh fetch: when that fetch fails, the failure goes to the
\* cache (error non-null, data absent), the promise of the fetch resolves and
\* the wrapper is not settled by it; when the wrapper then settles, it
\* resolves, with returned(w, payload).
C24_Steps(returned(_, _)) ==
    \A c \in calls :
        /\ \A f \in 1..Len(fetches) :
               (c.pc = "refresh" /\ c.rid = f /\ Completes(f) /\ ~Unwrapped(lastDone'.resp).ok)
                   => /\ customerState'.error # NullV
                      /\ customerState'.data = NullV
                      /\ fetches'[f].promise = "resolved"
                      /\ c \in calls'
                      /\ settled' = settled
        /\ (SettlesNow(c) /\ c.pc = "refresh")
               => /\ settled'.status = "resolved"
                  /\ settled'.value = returned(c.w, c.payload)
                  /\ UNCHANGED customerState

\* C24 as stated: a local mutating wrapper whose remote call succeeds and
\* whose refresh fetch fails still resolves with the mutation's payload; the
\* refresh failure shows in the cache only, as error non-null and data absent.
C24_RefreshFailureKeepsPayload == [][C24_Steps(C3_Payload)]_vars

\* C24 amended: as C24, but attach and cancel (Promise<void>) resolve with no
\* value; the other seven mutating wrappers resolve with the payload.
C24_RefreshFailureKeepsResult == [][C24_Steps(C3_PayloadOrVoid)]_vars

\* A mutating wrapper has resolved with its payload although its refresh
\* fetch, the last to complete, failed: the cache holds the error and no data.
C24_Witness ==
    /\ variant = "svelte"
    /\ settled.status = "resolved"
    /\ settled.value = Payload(None)
    /\ settled.rid > 0
    /\ lastDone.fid = settled.rid
    /\ ~Unwrapped(lastDone.resp).ok
    /\ customerState.error # NullV
    /\ customerState.data = NullV

(* -------------------------------- C25 ----------------------------------- *)

\* In this step a fetch is started: it changes isLoading, to true, and
\* error, to null, and nothing else of the cache.
C25_Start ==
    Len(fetches') > Len(fetches)
        => customerState' = [customerState EXCEPT !.isLoading = TRUE, !.error = NullV]

\* What the fetch that completed last left in data (unknown before any has).
C25_LastOutcome ==
    IF lastDone.fid = 0 THEN UndefinedV
    ELSE IF Unwrapped(lastDone.resp).ok THEN Unwrapped(lastDone.resp).value
    ELSE NullV

\* In this step allowed() is called while a fetch is in flight: it answers
\* from what the last completed fetch left.
C25_Answers ==
    (allowedResult' # allowedResult /\ ~NoPending)
        => allowedResult'.did = allowed(C25_LastOutcome, allowedResult'.params)

\* C25 as stated: starting a refresh in the local client changes only
\* isLoading (to true) and error (to null); data keeps its value as long as
\* that fetch is in flight, and allowed() keeps answering from the previous
\* snapshot meanwhile.
C25_DataKeptUntilThatFetchCompletes ==
    [][/\ C25_Start
       /\ \A f \in 1..Len(fetches) :
              (fetches[f].promise = "pending" /\ fetches'[f].promise = "pending")
                  => customerState'.data = customerState.data
       /\ C25_Answers]_vars

\* C25 amended: starting a refresh changes only isLoading and error; data
\* changes only in a step in which a fetch completes (the refresh or another
\* fetch in flight with it), and allowed() called while a fetch is in flight
\* answers from what the last completed fetch left.
C25_DataKeptUntilAFetchCompletes ==
    [][/\ C25_Start
       /\ customerState'.data # customerState.data => \E f \in 1..Len(fetches) : Completes(f)
       /\ C25_Answers]_vars

\* A refresh is in flight after an earlier fetch returned a customer with
\* balance 10: the cache still holds that customer, and allowed() has
\* answered from it.
C25_Witness ==
    /\ variant = "svelte"
    /\ ~NoPending
    /\ lastDone.fid > 0
    /\ customerState.isLoading
    /\ customerState.data = CustomerWith([f \in {"messages"} |-> Feature(Some(10))])
    /\ allowedResult # UndefinedV
    /\ allowedResult.did = Returned(Allow)

(* -------------------------------- C26 ----------------------------------- *)

\* What a wrapper with code w makes of the envelope (or throw) resp of its
\* remote call, whichever client it belongs to: the returned value or the
\* thrown error.
C26_Outcome(w, resp) ==
    LET r == Unwrapped(resp)
    IN  IF r.ok THEN [status |-> "resolved", value |-> WrapperReturn(w, r.value)]
        ELSE [status |-> "rejected", value |-> r.value]

\* Whether a wrapper with code w called with options triggers its refresh
\* mechanism on resp, whichever client it belongs to.
C26_Triggers(w, options, resp) == Unwrapped(resp).ok /\ w.mutating /\ RefetchOf(options)

\* What allowed({featureId: "messages"}) answers on a cached customer,
\* whichever client holds it.
C26_Answer(customer) ==
    IF customer \in {UndefinedV, NullV} THEN Deny("No customer data")
    ELSE IF "features" \notin DOMAIN customer THEN Deny("Feature not found")
    ELSE IF customer.features["messages"].balance[1] < 1
         THEN Deny("Insufficient balance: 0 < 1")
         ELSE Allow

ExecutionPending(execs) == \E e \in 1..Len(execs) : execs[e].promise = "pending"

\* C27: for every interleaving of overlapping execute calls on one
\* useAutumnOperation helper, isLoading is true whenever at least one
\* execution is in flight, and when an execution completes and leaves none in
\* flight, isLoading is false and the state shows the outcome of that
\* execution, the last to complete: error null and result the value if it
\* succeeded, error set and result null if it failed.
C27_StateTracksExecutions ==
    /\ [](ExecutionPending(executions) => operationState.isLoading)
    /\ [][\A e \in 1..Len(executions) :
              (executions[e].promise = "pending" /\ executions'[e].promise # "pending"
                   /\ ~ExecutionPending(executions'))
                  => LET outcome == executions'[e].outcome
                     IN  /\ ~operationState'.isLoading
                         /\ IF outcome.threw
                            THEN /\ operationState'.error # NullV
                                 /\ operationState'.result = NullV
                            ELSE /\ operationState'.error = NullV
                                 /\ operationState'.result = outcome.v]_vars

(* -------------------------------- C28 ----------------------------------- *)

\* In this step execution e completes.
C28_Completes(e) == executions[e].promise = "pending" /\ executions'[e].promise # "pending"

\* C28: reset() can be called at any time and sets isLoading = false,
\* error = null and result = null; it does not cancel an execution in
\* flight, which stays in flight and can still complete; an execution leaves
\* flight only by completing, after a reset() too, and then writes
\* isLoading = false again and its result (leaving error as it is), or its
\* error and result = null.
C28_ResetDoesNotCancel ==
    /\ [](ENABLED Reset)
    /\ [](\A e \in 1..Len(executions) :
              executions[e].promise = "pending"
                  => ENABLED OperationSettles(e, Returns(Payload(None))))
    /\ [][/\ (Len(executions') = Len(executions)
                 /\ \A e \in 1..Len(executions) : ~C28_Completes(e))
                => /\ operationState' = InitialOperationState
                   /\ \A e \in 1..Len(executions) :
                          executions'[e].promise = executions[e].promise
          /\ \A e \in 1..Len(executions) :
                 C28_Completes(e)
                     => LET outcome == executions'[e].outcome
                        IN  /\ executions'[e].promise = "resolved"
                            /\ executions'[e].returned # None
                            /\ ~operationState'.isLoading
                            /\ IF outcome.threw
                               THEN /\ operationState'.error = ToError(outcome.v)
                                    /\ operationState'.result = NullV
                               ELSE /\ operationState'.result = outcome.v
                                    /\ operationState'.error = operationState.error]_vars

\* reset() was called while the only execution was in flight; the execution
\* then completed and wrote its result.
C28_Witness ==
    /\ Len(executions) = 1
    /\ executions[1].reset
    /\ executions[1].promise = "resolved"
    /\ operationState = [isLoading |-> FALSE, error |-> NullV, result |-> Payload(None)]

(* -------------------------------- C29 ----------------------------------- *)

\* The URL side effect of wrapper call c is due on the unwrap result r: the
\* unwrap succeeded, the payload has a URL, the page runs in the browser and,
\* for checkout, the dialog callback was supplied.
C29_Due(c, r) ==
    /\ r.ok
    /\ r.value.url # None
    /\ isBrowser
    /\ c.w.effect = "dialog" => c.params.dialog

\* C29: in both clients the URL side effect of checkout (dialog callback)
\* and of setupPayment (navigation) happens in the step in which the remote
\* action returns and unwraps, whether refetch is true or false: with refetch
\* true the refresh (fetch or invalidation) the wrapper starts is still
\* pending when the side effect has happened, with refetch false the wrapper
\* settles with no refresh; a failed unwrap has no side effect; and neither
\* the completion of a refresh nor the wrapper's return after it adds or
\* removes a side effect.
C29_EffectBeforeRefresh ==
    [][/\ \A c \in calls :
              /\ (ReturnsNow(c) /\ c.w.effect \in {"dialog", "location.href"})
                     => LET r == Unwrapped(RespNow(c))
                        IN  /\ IF C29_Due(c, r)
                               THEN effects' = Append(effects, Effect(c.w.effect, r.value.url[1]))
                               ELSE effects' = effects
                            /\ (r.ok /\ RefetchOf(c.options))
                                   => /\ StartsRefresh(c)
                                      /\ Refreshes'[Len(Refreshes')].promise = "pending"
                            /\ (r.ok /\ ~RefetchOf(c.options))
                                   => /\ SettlesNow(c)
                                      /\ settled'.status = "resolved"
                                      /\ UNCHANGED <<fetches, invalidations>>
              /\ (SettlesNow(c) /\ c.pc = "refresh") => effects' = effects
       /\ calls' = calls => effects' = effects]_vars

\* In the browser a checkout with a dialog callback awaits the refresh it
\* started, still pending: the callback has been invoked with the URL.
C29_Witness ==
    /\ isBrowser
    /\ effects = <<Effect("dialog", "https://billing.test/session")>>
    /\ \E c \in calls :
           /\ c.pc = "refresh"
           /\ c.w.effect = "dialog"
           /\ Refreshes[c.rid].promise = "pending"

(* -------------------------------- C30 ----------------------------------- *)

\* In this step submit u requests the refresh: one invalidation is signalled
\* and the handler awaits it.
C30_Requests(u) ==
    /\ submits[u].pc = "action"
    /\ submits'[u].pc = "refetch"
    /\ invalidations' = Append(invalidations, NewInvalidation(-1))
    /\ submits'[u].rid = Len(invalidations')

\* C30: the Chat submit handler requests the cache refresh exactly once per
\* submission and only after the send action it awaits has resolved: the
\* step in which its action has resolved requests one refresh, the step in
\* which its action has failed requests none and ends the handler, no other
\* step requests a refresh; a submission with an empty or whitespace-only
\* message starts no run of the action and never requests a refresh.
C30_RefreshOnceAfterSend ==
    /\ [](\A u \in 1..Len(submits) :
              /\ Trim(submits[u].body) = "" => submits[u].send = 0 /\ submits[u].rid = 0
              /\ submits[u].rid > 0
                     => /\ sends[submits[u].send].status = "resolved"
                        /\ \A v \in 1..Len(submits) : submits[v].rid = submits[u].rid => v = u
              /\ (submits[u].pc = "done" /\ submits[u].send > 0
                      /\ sends[submits[u].send].status = "resolved")
                     => submits[u].rid > 0)
    /\ [](Len(invalidations) = Cardinality({u \in 1..Len(submits) : submits[u].rid > 0}))
    /\ [][/\ \A u \in 1..Len(submits) :
                 (submits[u].pc = "action" /\ submits'[u].pc # "action")
                     => IF sends[submits[u].send].status = "resolved"
                        THEN C30_Requests(u)
                        ELSE /\ sends[submits[u].send].status = "rejected"
                             /\ submits'[u].pc = "done"
                             /\ submits'[u].rid = 0
                             /\ invalidations' = invalidations
          /\ Len(invalidations') > Len(invalidations)
                 => \E u \in 1..Len(submits) : C30_Requests(u)
          /\ Len(submits') > Len(submits)
                 => /\ Len(invalidations') = Len(invalidations)
                    /\ IF Trim(newMessageText) = "" THEN sends' = sends
                       ELSE sends' = Append(sends, NewSend(newMessageText))]_vars

\* Two submissions have ended: one with a whitespace-only message, which
\* started no action, and one whose send action resolved and whose single
\* refresh has been served.
C30_Witness ==
    /\ Len(submits) = 2
    /\ \A u \in 1..2 : submits[u].pc = "done"
    /\ \E u \in 1..2 : submits[u].body = "  " /\ submits[u].send = 0 /\ submits[u].rid = 0
    /\ \E u \in 1..2 :
           /\ submits[u].body = " hi "
           /\ sends[submits[u].send].status = "resolved"
           /\ submits[u].rid = 1
    /\ Len(sends) = 1
    /\ Len(invalidations) = 1
    /\ invalidations[1].promise = "resolved"

====
